---------------------------- MODULE Spec2Model ----------------------------
(***************************************************************************)
(* A model of the character-at-a-time command shell of src/chell.c:        *)
(* the escape decoder (processEscapes), the line editor (editLine), the    *)
(* history ring and the tokenizer/dispatcher (processLine), driven through *)
(* chell_ProcessChar, plus the command registry (chell_RegisterHandler).   *)
(*                                                                         *)
(* Bytes are integers (their ASCII codes).  A C string is the sequence of  *)
(* bytes before its first NUL.  The line buffer is modelled cell by cell,  *)
(* including what lies behind the terminator, because the code reads it    *)
(* again (Tab completion writes no terminator, a new line only clears      *)
(* cell 0).  C index i of a buffer is element i+1 of the sequence.          *)
(*                                                                         *)
(* The imperative code is translated function by function: every C         *)
(* function is an operator from the machine state (a record) to the        *)
(* machine state after it.  The record holds the file globals and          *)
(* statics of chell.c and, for the call in progress, what the call did     *)
(* (bytes written to the output, handler invoked, ...).                    *)
(***************************************************************************)
EXTENDS Integers, Sequences, FiniteSets, TLC

(***************************************************************************)
(* Sizes.  chell.h sets MAX_PARAMETERS 16, MAX_STR 64, MAX_HISTORY 16,     *)
(* MAX_COMMANDS 64 and MAX_TOTAL_COMMAND_CHARS (16+1)*64+16 = 1104; the    *)
(* model keeps the code's comparisons against them and scales the values   *)
(* down so that full buffers, a full ring and a full table are reached.    *)
(* The fixed texts the shell prints ("^C", "*** Huh? ***", the help list)  *)
(* are far shorter than the real 1105-byte formatting buffer, so only      *)
(* output whose length depends on the line is compared with the scaled     *)
(* buffer size.                                                            *)
(***************************************************************************)
MAX_TOTAL_COMMAND_CHARS == 5
MAX_HISTORY == 3
MAX_COMMANDS == 3
MAX_PARAMETERS == 1
MAX_STR == 64

\* sizeof(lineBuf), sizeof(histBuf[0]), sizeof(str) in chell_printf
LineSize == MAX_TOTAL_COMMAND_CHARS + 1

(***************************************************************************)
(* Bytes with a meaning of their own.                                      *)
(***************************************************************************)
NUL == 0
CTRL_C == 3
BS == 8
TAB == 9
LF == 10
CR == 13
ESC == 27
SPACE == 32
COMMA == 44
TILDE == 126
DEL7F == 127

\* Return values of processEscapes() (the enum of chell.c).
ESC_UNHANDLED == -2
ESC_PROCESSING == -1
ESC_NO_ACTION == 0
ESC_UP_ARROW == 1
ESC_DOWN_ARROW == 2
ESC_RIGHT_ARROW == 3
ESC_LEFT_ARROW == 4
ESC_F1 == 5
ESC_F2 == 6
ESC_F3 == 7
ESC_F4 == 8
ESC_TAB == 9
ESC_F5 == 10
ESC_F6 == 11
ESC_F7 == 12
ESC_F8 == 13
ESC_F9 == 14
ESC_DEL == 15
ESC_HOME == 16
ESC_END == 17

\* kEscapes[] of processEscapes(): each entry without its padding NULs.
kEscapes ==
  << <<27, 91, 65>>,          \* up arrow
     <<27, 91, 66>>,          \* down arrow
     <<27, 91, 67>>,          \* right arrow
     <<27, 91, 68>>,          \* left arrow
     <<27, 79, 80>>,          \* F1
     <<27, 79, 81>>,          \* F2
     <<27, 79, 82>>,          \* F3
     <<27, 79, 83>>,          \* F4
     <<27, 91, 49, 53, 126>>, \* F5
     <<27, 91, 49, 55, 126>>, \* F6
     <<27, 91, 49, 56, 126>>, \* F7
     <<27, 91, 49, 57, 126>>, \* F8
     <<27, 91, 50, 48, 126>>, \* F9
     <<27, 91, 51, 126>>,     \* delete
     <<27, 91, 49, 126>>,     \* home
     <<27, 91, 52, 126>>      \* end
  >>

\* sizeof(escapeChars) = sizeof(kEscapes[0])
EscSize == 6

(***************************************************************************)
(* C strings in buffers.                                                   *)
(***************************************************************************)
\* buf[i] and buf[i] = v for a C index i
At(buf, i) == buf[i + 1]

Put(buf, i, v) == [buf EXCEPT ![i + 1] = v]

\* the all-NUL buffer of n cells (memset(buf, 0, n))
Zeros(n) == [i \in 1..n |-> NUL]

\* strlen(&buf[from]): the number of bytes from index `from` to the next NUL
\* (every buffer of the model keeps a NUL in its last cell)
StrLenFrom(buf, from) ==
  LET ends == {j \in from..(Len(buf) - 1) : At(buf, j) = NUL}
  IN IF ends = {} THEN Len(buf) - from
     ELSE (CHOOSE j \in ends : \A k \in ends : j <= k) - from

strlen(buf) == StrLenFrom(buf, 0)

\* the C string at &buf[from]
StrFrom(buf, from) == SubSeq(buf, from + 1, from + StrLenFrom(buf, from))

Str(buf) == StrFrom(buf, 0)

\* strcpy(dst, s) into a buffer that memset has zeroed
StrToBuf(s, n) == [i \in 1..n |-> IF i <= Len(s) THEN s[i] ELSE NUL]

\* strncmp(a, b, n) = 0 for the C strings a and b
StrNEq(a, b, n) ==
  LET a1 == SubSeq(a, 1, IF Len(a) < n THEN Len(a) ELSE n)
      b1 == SubSeq(b, 1, IF Len(b) < n THEN Len(b) ELSE n)
  IN a1 = b1


(***************************************************************************)
(* Output.  `out` collects, for the call in progress, the bytes outChar()  *)
(* delivered: to the call-back when one is supplied, else into the         *)
(* accumulator g_outCharsBuf (g_outCharIdx is its length), which drops     *)
(* what does not fit.  `fault` records the first undefined behaviour the   *)
(* call ran into.                                                          *)
(***************************************************************************)
outChar(s, c) ==
  IF s.g_cb_out
  THEN [s EXCEPT !.out = Append(@, c)]
  ELSE IF Len(s.g_outCharsBuf) < MAX_STR
       THEN [s EXCEPT !.g_outCharsBuf = Append(@, c), !.out = Append(@, c)]
       ELSE s

RECURSIVE outStr(_, _)
outStr(s, str) ==
  IF str = <<>> THEN s ELSE outStr(outChar(s, Head(str)), Tail(str))

\* for (i=from; i<to; i++) outChar(c)
RECURSIVE outRepeat(_, _, _)
outRepeat(s, c, n) ==
  IF n <= 0 THEN s ELSE outRepeat(outChar(s, c), c, n - 1)

SetFault(s, kind) ==
  IF s.fault = "none" THEN [s EXCEPT !.fault = kind] ELSE s

\* chell_printf of a fixed text (see the note on sizes above)
chell_printf_text(s, str) == outStr(s, str)

\* chell_printf whose formatted result `str` depends on the line: vsprintf
\* writes Len(str)+1 bytes into char str[MAX_TOTAL_COMMAND_CHARS+1]
chell_printf(s, str) ==
  outStr(IF Len(str) + 1 > LineSize THEN SetFault(s, "printf_overflow") ELSE s,
         str)

(***************************************************************************)
(* removeCharAtIndex / insertCharAtIndex: [line, ok].                      *)
(***************************************************************************)
removeCharAtIndex(line, idx) ==
  LET len == strlen(line)
  IN IF idx < 0 \/ idx >= len
     THEN [line |-> line, ok |-> FALSE]
     ELSE [line |-> [i \in 1..Len(line) |->
                       IF i - 1 >= idx /\ i - 1 < len THEN line[i + 1]
                       ELSE line[i]],
           ok |-> TRUE]

\* an insertion that relies on the caller for the room: without the test
\* (len+1) >= lineSize
insertCharAtIndexNoLimit(line, idx, c, lineSize) ==
  LET len == strlen(line)
  IN IF idx < 0 \/ idx > len
     THEN [line |-> line, ok |-> FALSE]
     ELSE [line |-> [i \in 1..Len(line) |->
                       IF i - 1 = idx THEN c
                       ELSE IF i - 1 > idx /\ i - 1 <= len + 1 THEN line[i - 1]
                       ELSE line[i]],
           ok |-> TRUE]

insertCharAtIndex(line, idx, c, lineSize) ==
  LET len == strlen(line)
  IN IF idx < 0 \/ idx > len
     THEN [line |-> line, ok |-> FALSE]
     ELSE IF len + 1 >= lineSize
     THEN [line |-> line, ok |-> FALSE]
     ELSE [line |-> [i \in 1..Len(line) |->
                       IF i - 1 = idx THEN c
                       ELSE IF i - 1 > idx /\ i - 1 <= len + 1 THEN line[i - 1]
                       ELSE line[i]],
           ok |-> TRUE]

(***************************************************************************)
(* clearLine: wipe the terminal line and the buffer.                       *)
(***************************************************************************)
clearLine(s) ==
  LET n == s.lineIdx
      s1 == outRepeat(outRepeat(outRepeat(s, BS, n), SPACE, n), BS, n)
  IN [s1 EXCEPT !.lineBuf = Zeros(LineSize), !.lineIdx = 0]

(***************************************************************************)
(* uniquePartialMatch: the C index of the only registered command that     *)
(* str is a prefix of, -1 if none or several.                              *)
(***************************************************************************)
uniquePartialMatch(s, str) ==
  LET len == Len(str)
      hits == {i \in 1..Len(s.g_cmd) : StrNEq(str, s.g_cmd[i].cmd, len)}
  IN IF Cardinality(hits) = 1 THEN (CHOOSE i \in hits : TRUE) - 1 ELSE -1

(***************************************************************************)
(* editLine(extChar): one edit step; `done` is its return value.  The      *)
(* statements of a branch that read what the previous one wrote are        *)
(* operators of their own, applied in the order of the code.               *)
(***************************************************************************)
\* the tail of editLine: track the latest character, reset at end of line
editLineEnd(s, extChar, rcode) ==
  IF rcode
  THEN [s EXCEPT !.lastChar = -1, !.editIdx = -1, !.done = TRUE]
  ELSE [s EXCEPT !.lastChar = extChar, !.done = FALSE]

\* editIdx--; removeCharAtIndex(lineBuf, editIdx);
editBackspaceRemove(s) ==
  [s EXCEPT !.editIdx = @ - 1,
            !.lineBuf = removeCharAtIndex(@, s.editIdx - 1).line]

\* chell_printf("\b%s \b", &lineBuf[editIdx]);
editBackspaceEcho(s) ==
  chell_printf(s, <<BS>> \o StrFrom(s.lineBuf, s.editIdx) \o <<SPACE, BS>>)

\* lineIdx--; for (i=editIdx; i<lineIdx; i++) outChar('\b');
editBackspaceBack(s) ==
  outRepeat([s EXCEPT !.lineIdx = @ - 1], BS, s.lineIdx - 1 - s.editIdx)

\* the echo of a backspace made whether or not a character is erased
editBackspaceAlwaysEcho(s) ==
  IF s.editIdx > 0
  THEN editBackspaceBack(editBackspaceEcho(editBackspaceRemove(s)))
  ELSE outChar(s, BS)

editBackspace(s) ==
  IF s.editIdx > 0
  THEN editBackspaceBack(editBackspaceEcho(editBackspaceRemove(s)))
  ELSE s

\* chell_printf("%s ", &lineBuf[editIdx]);
editDeleteEcho(s) ==
  chell_printf(s, StrFrom(s.lineBuf, s.editIdx) \o <<SPACE>>)

\* for (i=editIdx; i<lineIdx; i++) outChar('\b'); lineIdx--;
editDeleteBack(s) ==
  [outRepeat(s, BS, s.lineIdx - s.editIdx) EXCEPT !.lineIdx = @ - 1]

editDelete(s) ==
  IF removeCharAtIndex(s.lineBuf, s.editIdx).ok
  THEN editDeleteBack(editDeleteEcho(
         [s EXCEPT !.lineBuf = removeCharAtIndex(@, s.editIdx).line]))
  ELSE s

editHome(s) ==
  IF s.editIdx > 0
  THEN [outRepeat(s, BS, s.editIdx) EXCEPT !.editIdx = 0]
  ELSE s

editEnd(s) ==
  IF s.editIdx < s.lineIdx
  THEN [outStr(s, SubSeq(s.lineBuf, s.editIdx + 1, s.lineIdx))
          EXCEPT !.editIdx = s.lineIdx]
  ELSE s

\* strncpy(&lineBuf[lineIdx], &name[lineIdx], ...) for the matched name,
\* then the echo of what lies behind the cursor
editTabFill(s, name) ==
  LET len == Len(name)
      top == IF len > LineSize THEN LineSize ELSE len
      buf == [i \in 1..LineSize |->
                IF i - 1 >= s.lineIdx /\ i - 1 < top THEN name[i]
                ELSE s.lineBuf[i]]
  IN IF s.editIdx < len
     THEN [outStr([(IF len > MAX_TOTAL_COMMAND_CHARS
                    THEN SetFault(s, "tab_overflow") ELSE s)
                     EXCEPT !.lineBuf = buf],
                  SubSeq(buf, s.editIdx + 1, top))
             EXCEPT !.editIdx = len, !.lineIdx = len]
     ELSE s

editTab(s) ==
  LET idx == uniquePartialMatch(s, Str(s.lineBuf))
  IN IF idx >= 0 THEN editTabFill(s, s.g_cmd[idx + 1].cmd) ELSE s

\* chell_printf("%s", &lineBuf[editIdx]);
editPrintableEcho(s) ==
  chell_printf(s, StrFrom(s.lineBuf, s.editIdx))

\* for (i=editIdx; i<lineIdx; i++) outChar('\b');
editPrintableBack(s) ==
  outRepeat(s, BS, s.lineIdx - s.editIdx)

editPrintable(s, extChar) ==
  LET ins == insertCharAtIndex(s.lineBuf, s.editIdx, extChar, LineSize)
  IN IF ins.ok
     THEN editPrintableBack(
            [editPrintableEcho(
               [outChar([s EXCEPT !.lineBuf = ins.line, !.ins = TRUE], extChar)
                  EXCEPT !.editIdx = @ + 1])
               EXCEPT !.lineIdx = @ + 1])
     ELSE s

\* if (editIdx < 0) { editIdx = lineIdx; if (lineIdx == 0) lineBuf[0] = 0; }
editLineStart(s) ==
  IF s.editIdx < 0
  THEN [s EXCEPT !.editIdx = s.lineIdx,
                 !.lineBuf = IF s.lineIdx = 0 THEN Put(@, 0, NUL) ELSE @]
  ELSE s

\* a Right-arrow that moves the cursor without the test editIdx < lineIdx
editLineKeyRightAlways(s, extChar) ==
  CASE extChar = DEL7F \/ extChar = BS -> editLineEnd(editBackspace(s), extChar, FALSE)
    [] extChar = ESC_DEL -> editLineEnd(editDelete(s), extChar, FALSE)
    [] extChar = ESC_LEFT_ARROW /\ s.editIdx > 0 ->
         editLineEnd([outChar(s, BS) EXCEPT !.editIdx = @ - 1], extChar, FALSE)
    [] extChar = ESC_RIGHT_ARROW ->
         editLineEnd([outChar(s, At(s.lineBuf, s.editIdx)) EXCEPT !.editIdx = @ + 1],
                     extChar, FALSE)
    [] extChar = ESC_HOME -> editLineEnd(editHome(s), extChar, FALSE)
    [] extChar = ESC_END -> editLineEnd(editEnd(s), extChar, FALSE)
    [] extChar = ESC_TAB /\ s.editIdx = s.lineIdx ->
         editLineEnd(editTab(s), extChar, FALSE)
    [] extChar >= SPACE /\ extChar <= TILDE ->
         editLineEnd(editPrintable(s, extChar), extChar, FALSE)
    [] extChar = CR -> editLineEnd(s, extChar, s.lastChar # LF)
    [] extChar = LF -> editLineEnd(s, extChar, s.lastChar # CR)
    [] OTHER -> [s EXCEPT !.done = FALSE]

\* the if / else-if chain on extChar
editLineKey(s, extChar) ==
  CASE extChar = DEL7F \/ extChar = BS -> editLineEnd(editBackspace(s), extChar, FALSE)
    [] extChar = ESC_DEL -> editLineEnd(editDelete(s), extChar, FALSE)
    [] extChar = ESC_LEFT_ARROW /\ s.editIdx > 0 ->
         editLineEnd([outChar(s, BS) EXCEPT !.editIdx = @ - 1], extChar, FALSE)
    [] extChar = ESC_RIGHT_ARROW /\ s.editIdx < s.lineIdx ->
         editLineEnd([outChar(s, At(s.lineBuf, s.editIdx)) EXCEPT !.editIdx = @ + 1],
                     extChar, FALSE)
    [] extChar = ESC_HOME -> editLineEnd(editHome(s), extChar, FALSE)
    [] extChar = ESC_END -> editLineEnd(editEnd(s), extChar, FALSE)
    [] extChar = ESC_TAB /\ s.editIdx = s.lineIdx ->
         editLineEnd(editTab(s), extChar, FALSE)
    [] extChar >= SPACE /\ extChar <= TILDE ->
         editLineEnd(editPrintable(s, extChar), extChar, FALSE)
    [] extChar = CR -> editLineEnd(s, extChar, s.lastChar # LF)
    [] extChar = LF -> editLineEnd(s, extChar, s.lastChar # CR)
    [] OTHER -> [s EXCEPT !.done = FALSE]

editLine(s, extChar) == editLineKey(editLineStart(s), extChar)

\* a decoder that reports a match by the value of the enumeration, which
\* skips ESC_TAB, in place of the index of the entry
processEscapesEnum(esc, c) ==
  LET escIdx == Len(esc)
  IN IF c = ESC
     THEN [esc |-> <<c>>, rc |-> ESC_PROCESSING]
     ELSE IF escIdx = 0
     THEN [esc |-> esc, rc |-> ESC_NO_ACTION]
     ELSE LET buf == IF escIdx < EscSize - 1 THEN Append(esc, c) ELSE esc
              n == Len(buf)
              Full(e) == /\ Len(kEscapes[e]) <= n
                         /\ SubSeq(buf, 1, Len(kEscapes[e])) = kEscapes[e]
              Part(e) == /\ n < Len(kEscapes[e])
                         /\ SubSeq(kEscapes[e], 1, n) = buf
              hits == {e \in 1..Len(kEscapes) : Full(e) \/ Part(e)}
          IN IF hits = {}
             THEN [esc |-> <<>>, rc |-> ESC_UNHANDLED]
             ELSE LET e == CHOOSE x \in hits : \A y \in hits : x <= y
                  IN IF Full(e)
                     THEN [esc |-> <<>>, rc |-> IF e >= ESC_TAB THEN e + 1 ELSE e]
                     ELSE [esc |-> buf, rc |-> ESC_PROCESSING]

\* a decoder that reports a byte that matches no entry but keeps what it
\* has gathered
processEscapesKeep(esc, c) ==
  LET escIdx == Len(esc)
  IN IF c = ESC
     THEN [esc |-> <<c>>, rc |-> ESC_PROCESSING]
     ELSE IF escIdx = 0
     THEN [esc |-> esc, rc |-> ESC_NO_ACTION]
     ELSE LET buf == IF escIdx < EscSize - 1 THEN Append(esc, c) ELSE esc
              n == Len(buf)
              Full(e) == /\ Len(kEscapes[e]) <= n
                         /\ SubSeq(buf, 1, Len(kEscapes[e])) = kEscapes[e]
              Part(e) == /\ n < Len(kEscapes[e])
                         /\ SubSeq(kEscapes[e], 1, n) = buf
              hits == {e \in 1..Len(kEscapes) : Full(e) \/ Part(e)}
          IN IF hits = {}
             THEN [esc |-> buf, rc |-> ESC_UNHANDLED]
             ELSE LET e == CHOOSE x \in hits : \A y \in hits : x <= y
                  IN IF Full(e)
                     THEN [esc |-> <<>>, rc |-> e]
                     ELSE [esc |-> buf, rc |-> ESC_PROCESSING]

\* a decoder that looks for two escapes in a row before it clears the
\* accumulator, and hands the second one on as a plain character
processEscapesTwoEscapes(esc, c) ==
  LET escIdx == Len(esc)
  IN IF c = ESC
     THEN IF escIdx = 1 /\ esc[1] = ESC
          THEN [esc |-> <<>>, rc |-> ESC_NO_ACTION]
          ELSE [esc |-> <<c>>, rc |-> ESC_PROCESSING]
     ELSE IF escIdx = 0
     THEN [esc |-> esc, rc |-> ESC_NO_ACTION]
     ELSE LET buf == IF escIdx < EscSize - 1 THEN Append(esc, c) ELSE esc
              n == Len(buf)
              Full(e) == /\ Len(kEscapes[e]) <= n
                         /\ SubSeq(buf, 1, Len(kEscapes[e])) = kEscapes[e]
              Part(e) == /\ n < Len(kEscapes[e])
                         /\ SubSeq(kEscapes[e], 1, n) = buf
              hits == {e \in 1..Len(kEscapes) : Full(e) \/ Part(e)}
          IN IF hits = {}
             THEN [esc |-> <<>>, rc |-> ESC_UNHANDLED]
             ELSE LET e == CHOOSE x \in hits : \A y \in hits : x <= y
                  IN IF Full(e)
                     THEN [esc |-> <<>>, rc |-> e]
                     ELSE [esc |-> buf, rc |-> ESC_PROCESSING]

(***************************************************************************)
(* processEscapes(c): [esc, rc], the accumulator afterwards and the return *)
(* value.  The accumulator escapeChars is the sequence of bytes gathered   *)
(* (the C array is NUL-padded, escIdx is the index of its first NUL).      *)
(***************************************************************************)
processEscapes(esc, c) ==
  LET escIdx == Len(esc)
  IN IF c = ESC
     THEN \* memset() comes first, so the "two escapes in a row" test reads
          \* the cleared buffer
          LET cleared == Zeros(EscSize)
          IN IF escIdx = 1 /\ cleared[1] = ESC
             THEN [esc |-> <<>>, rc |-> ESC_NO_ACTION]
             ELSE [esc |-> <<c>>, rc |-> ESC_PROCESSING]
     ELSE IF escIdx = 0
     THEN [esc |-> esc, rc |-> ESC_NO_ACTION]
     ELSE LET buf == IF escIdx < EscSize - 1 THEN Append(esc, c) ELSE esc
              n == Len(buf)
              \* entry e is matched up to its last byte
              Full(e) == /\ Len(kEscapes[e]) <= n
                         /\ SubSeq(buf, 1, Len(kEscapes[e])) = kEscapes[e]
              \* all n bytes match entry e, which has more
              Part(e) == /\ n < Len(kEscapes[e])
                         /\ SubSeq(kEscapes[e], 1, n) = buf
              hits == {e \in 1..Len(kEscapes) : Full(e) \/ Part(e)}
          IN IF hits = {}
             THEN [esc |-> <<>>, rc |-> ESC_UNHANDLED]
             ELSE LET e == CHOOSE x \in hits : \A y \in hits : x <= y
                  IN IF Full(e)
                     THEN [esc |-> <<>>, rc |-> e]
                     ELSE [esc |-> IF c = NUL THEN esc ELSE buf,
                           rc |-> ESC_PROCESSING]

(***************************************************************************)
(* Texts of the shell.                                                     *)
(***************************************************************************)
TxtHelpName == <<104, 101, 108, 112>>
TxtHelpHelp == <<116, 104, 105, 115, 32, 104, 101, 108, 112, 32, 109, 101, 115, 115, 97, 103, 101>>
TxtHuh == <<42, 42, 42, 32, 72, 117, 104, 63, 32, 42, 42, 42>>
TxtCommands == <<61, 61, 61, 61, 61, 32, 67, 111, 109, 109, 97, 110, 100, 115, 32, 61, 61, 61, 61, 61>>
TxtCtrlC == <<94, 67>>
TxtCRLF == <<13, 10>>
TxtQuoteOpen == <<32, 32, 34>>
TxtQuoteClose == <<34, 32, 45, 32>>

(***************************************************************************)
(* Handlers.  A handler is named by a string; "NULL" is the null pointer.  *)
(* handle_help and handle_unhandled are the built-in ones; a caller's      *)
(* handler is opaque: its invocation is recorded in `disp`.                *)
(***************************************************************************)
NoDisp == [kind |-> "none", handler |-> "NULL", entry |-> -1,
           cmdNull |-> FALSE, cmd |-> <<>>, params |-> <<>>]

handle_unhandled(s) ==
  chell_printf_text(s, TxtHuh \o s.g_outLineEnd)

RECURSIVE helpLines(_, _)
helpLines(s, i) ==
  IF i > Len(s.g_cmd) THEN s
  ELSE helpLines(chell_printf_text(s, TxtQuoteOpen \o s.g_cmd[i].cmd \o TxtQuoteClose
                                      \o s.g_cmd[i].help \o s.g_outLineEnd),
                 i + 1)

handle_help(s) ==
  helpLines(chell_printf_text(s, s.g_outLineEnd \o TxtCommands \o s.g_outLineEnd \o <<LF>>), 1)

(***************************************************************************)
(* chell_RegisterHandler(cmd, handler, help): [s, ok].  g_cmd is the       *)
(* sequence of the g_numRegCmds registered entries.                        *)
(***************************************************************************)
\* a registration that adds the "help" entry before it looks at the table
\* and at the handler
chell_RegisterHandlerHelpFirst(s, cmd, handler, help) ==
  LET s1 == IF ~s.g_helpInitialized
            THEN [s EXCEPT !.g_helpInitialized = TRUE,
                           !.g_cmd = Append(@, [cmd |-> TxtHelpName,
                                                handler |-> "handle_help",
                                                help |-> TxtHelpHelp])]
            ELSE s
  IN IF Len(s1.g_cmd) >= MAX_COMMANDS THEN [s |-> s1, ok |-> FALSE]
     ELSE IF handler = "NULL" THEN [s |-> s1, ok |-> FALSE]
     ELSE [s |-> [s1 EXCEPT !.g_cmd = Append(@, [cmd |-> cmd, handler |-> handler,
                                                 help |-> help])],
           ok |-> TRUE]

RECURSIVE chell_RegisterHandler(_, _, _, _)
chell_RegisterHandler(s, cmd, handler, help) ==
  IF Len(s.g_cmd) >= MAX_COMMANDS THEN [s |-> s, ok |-> FALSE]
  ELSE IF handler = "NULL" THEN [s |-> s, ok |-> FALSE]
  ELSE LET s1 == IF ~s.g_helpInitialized
                 THEN chell_RegisterHandler([s EXCEPT !.g_helpInitialized = TRUE],
                                            TxtHelpName, "handle_help", TxtHelpHelp).s
                 ELSE s
           entry == [cmd |-> cmd, handler |-> handler, help |-> help]
       IN IF Len(s1.g_cmd) >= MAX_COMMANDS
          THEN \* g_cmd[g_numRegCmds] lies behind the table
               [s |-> SetFault(s1, "g_cmd_overflow"), ok |-> TRUE]
          ELSE [s |-> [s1 EXCEPT !.g_cmd = Append(@, entry)], ok |-> TRUE]

(***************************************************************************)
(* processLine(line): strtok() on " ,", then the table scan.               *)
(***************************************************************************)
\* the delimiter set " " in place of " ,"
IsDelimSpaceOnly(c) == c = SPACE

IsDelim(c) == c = SPACE \/ c = COMMA

\* the tokens of the C string str from C index pos on: <<[from, to)>>
RECURSIVE Tokens(_, _)
Tokens(str, pos) ==
  LET starts == {i \in pos..(Len(str) - 1) : ~IsDelim(str[i + 1])}
  IN IF starts = {} THEN <<>>
     ELSE LET from == CHOOSE i \in starts : \A j \in starts : i <= j
              stops == {i \in from..(Len(str) - 1) : IsDelim(str[i + 1])}
              to == IF stops = {} THEN Len(str)
                    ELSE CHOOSE i \in stops : \A j \in stops : i <= j
          IN <<[from |-> from, to |-> to]>> \o Tokens(str, to + 1)

\* the scan of the table for cmd, on the line strtok() has cut
processLineScan(s, cmd, params) ==
  LET hits == {i \in 1..Len(s.g_cmd) : s.g_cmd[i].cmd = cmd}
      i == CHOOSE x \in hits : \A y \in hits : x <= y
  IN IF hits # {}
     THEN IF s.g_cmd[i].handler = "handle_help"
          THEN handle_help([s EXCEPT !.disp = [kind |-> "handled",
                                               handler |-> "handle_help",
                                               entry |-> i - 1, cmdNull |-> FALSE,
                                               cmd |-> cmd, params |-> params]])
          ELSE [s EXCEPT !.disp = [kind |-> "handled",
                                   handler |-> s.g_cmd[i].handler,
                                   entry |-> i - 1, cmdNull |-> FALSE,
                                   cmd |-> cmd, params |-> params]]
     ELSE handle_unhandled([s EXCEPT !.disp = [kind |-> "unhandled",
                                               handler |-> "handle_unhandled",
                                               entry |-> -1, cmdNull |-> FALSE,
                                               cmd |-> cmd, params |-> params]])

\* a split that hands over every token that follows the command word
processLineToksAll(s, line, toks) ==
  LET Word(k) == SubSeq(line, toks[k].from + 1, toks[k].to)
      cut == {toks[k].to : k \in 1..Len(toks)}
      buf == [i \in 1..LineSize |-> IF (i - 1) \in cut THEN NUL ELSE s.lineBuf[i]]
  IN IF toks = <<>>
     THEN handle_unhandled([SetFault(s, "null_cmd") EXCEPT
                              !.lineBuf = buf,
                              !.disp = [NoDisp EXCEPT !.kind = "unhandled",
                                                      !.handler = "handle_unhandled",
                                                      !.cmdNull = TRUE]])
     ELSE processLineScan([s EXCEPT !.lineBuf = buf], Word(1),
                          [k \in 1..(Len(toks) - 1) |-> Word(k + 1)])

\* the strtok() calls on the C string `line` of lineBuf, whose tokens are toks
processLineToks(s, line, toks) ==
  LET \* strtok() is called once for the command and then at most
      \* MAX_PARAMETERS times, stopping at the first NULL
      nTaken == IF Len(toks) > 1 + MAX_PARAMETERS THEN 1 + MAX_PARAMETERS ELSE Len(toks)
      Word(k) == SubSeq(line, toks[k].from + 1, toks[k].to)
      \* each token strtok() returns is terminated in place
      cut == {toks[k].to : k \in 1..nTaken}
      buf == [i \in 1..LineSize |-> IF (i - 1) \in cut THEN NUL ELSE s.lineBuf[i]]
  IN IF nTaken = 0
     THEN \* cmd is NULL: strcmp(NULL, ...) in the scan; if that does not
          \* end the program no entry compares equal
          handle_unhandled([SetFault(s, "null_cmd") EXCEPT
                              !.lineBuf = buf,
                              !.disp = [NoDisp EXCEPT !.kind = "unhandled",
                                                      !.handler = "handle_unhandled",
                                                      !.cmdNull = TRUE]])
     ELSE processLineScan([s EXCEPT !.lineBuf = buf], Word(1),
                          [k \in 1..(nTaken - 1) |-> Word(k + 1)])

processLine(s) ==
  IF Str(s.lineBuf) = <<>> THEN s
  ELSE processLineToks(s, Str(s.lineBuf), Tokens(Str(s.lineBuf), 0))

\* a test that takes only the line without characters for empty
isEmptyLineNoChars(line) == line = <<>>

isEmptyLine(line) ==
  \A i \in 1..Len(line) : line[i] = CR \/ line[i] = LF \/ line[i] = SPACE

(***************************************************************************)
(* chell_ProcessChar(c, cb_out).                                           *)
(***************************************************************************)
\* chell_printf(lineBuf): the recalled line is the format string of
\* vsprintf.  "%%" is the conversion that prints one '%' and takes no
\* argument; any other '%' makes vsprintf read arguments that were never
\* passed.  Where that does not end the program the conversion is taken
\* to print nothing.
RECURSIVE ReadsArguments(_)
ReadsArguments(fmt) ==
  IF fmt = <<>> THEN FALSE
  ELSE IF Head(fmt) # 37 THEN ReadsArguments(Tail(fmt))
  ELSE IF Len(fmt) >= 2 /\ fmt[2] = 37 THEN ReadsArguments(Tail(Tail(fmt)))
  ELSE TRUE

RECURSIVE DropConversions(_)
DropConversions(str) ==
  IF str = <<>> THEN <<>>
  ELSE IF Head(str) = 37
  THEN IF Len(str) = 1 THEN <<>>
       ELSE IF str[2] = 37 THEN <<37>> \o DropConversions(Tail(Tail(str)))
       ELSE DropConversions(Tail(Tail(str)))
  ELSE <<Head(str)>> \o DropConversions(Tail(str))

chell_printf_fmt(s, fmt) ==
  IF ReadsArguments(fmt)
  THEN chell_printf(SetFault(s, "format_string"), DropConversions(fmt))
  ELSE chell_printf(s, DropConversions(fmt))

\* return lineBuf;
recallSlotRet(s) ==
  [s EXCEPT !.recall = "ok", !.ret = Str(s.lineBuf)]

\* chell_printf(lineBuf);
recallSlotShow(s) ==
  chell_printf_fmt(s, Str(s.lineBuf))

\* the common tail of the two recall cases: recall slot i
recallSlot(s, i) ==
  recallSlotRet(recallSlotShow(
    [clearLine([s EXCEPT !.recallIdx = i])
       EXCEPT !.lineBuf = StrToBuf(s.histBuf[i + 1], LineSize),
              !.lineIdx = Len(s.histBuf[i + 1])]))

recallUp(s) ==
  LET i == IF s.recallIdx < 0
           THEN (MAX_HISTORY + s.histIdx - 1) % MAX_HISTORY
           ELSE (MAX_HISTORY + s.recallIdx - 1) % MAX_HISTORY
  IN IF s.histBuf[i + 1] = <<>>
     THEN [s EXCEPT !.recall = "nomore", !.ret = <<>>]
     ELSE recallSlot(s, i)

recallDown(s) ==
  LET i == (s.recallIdx + 1) % MAX_HISTORY
  IN IF s.recallIdx < 0 THEN [s EXCEPT !.recall = "nomore", !.ret = <<>>]
     ELSE IF i = s.histIdx THEN [s EXCEPT !.recall = "nomore", !.ret = <<>>]
     ELSE recallSlot(s, i)

\* lineBuf[lineIdx] = 0; lineIdx = 0; recallIdx = -1;
lineCompleteTerminate(s) ==
  IF s.lineIdx < 0
  THEN \* lineBuf[lineIdx] lies before the buffer
       [SetFault(s, "lineBuf_underflow") EXCEPT !.lineIdx = 0, !.recallIdx = -1]
  ELSE [s EXCEPT !.lineBuf = Put(@, s.lineIdx, NUL), !.lineIdx = 0,
                 !.recallIdx = -1]

\* the push of fullLine, the copy of the line taken before processLine cut it
lineCompletePush(s, fullLine) ==
  [s EXCEPT !.histBuf[s.histIdx + 1] = fullLine,
            !.histIdx = (s.histIdx + 1) % MAX_HISTORY,
            !.pushed = <<fullLine>>]

\* a line completion that stores the line only when a registered handler
\* took it
lineCompleteDispatchOnSuccess(s) ==
  IF ~isEmptyLine(Str(s.lineBuf))
  THEN IF processLine(chell_printf_text(s, s.g_outLineEnd)).disp.kind = "handled"
       THEN lineCompletePush(processLine(chell_printf_text(s, s.g_outLineEnd)),
                             Str(s.lineBuf))
       ELSE processLine(chell_printf_text(s, s.g_outLineEnd))
  ELSE s

\* if (!isEmptyLine(lineBuf)) { line end, processLine, push }
lineCompleteDispatch(s) ==
  IF ~isEmptyLine(Str(s.lineBuf))
  THEN lineCompletePush(processLine(chell_printf_text(s, s.g_outLineEnd)),
                        Str(s.lineBuf))
  ELSE s

\* chell_printf("%s%s", g_outLineEnd, g_prompt);
lineCompletePrompt(s) ==
  [chell_printf_text(s, s.g_outLineEnd \o s.g_prompt) EXCEPT !.prompts = @ + 1]

\* a completed line: terminate, dispatch, push, prompt
lineComplete(s) ==
  lineCompletePrompt(lineCompleteDispatch(lineCompleteTerminate(s)))

\* the end of chell_ProcessChar: hand back the accumulated output
flushOut(s) ==
  [s EXCEPT !.ret = s.g_outCharsBuf, !.g_outCharsBuf = <<>>]

\* what follows editLine(): the completed line if it returned true
lineStepEnd(s) ==
  flushOut(IF s.done THEN lineComplete(s) ELSE s)

lineStep(s, extChar) ==
  lineStepEnd(editLine([s EXCEPT !.edited = TRUE, !.ext = extChar], extChar))

\* the start of the call without the registration of "help"
chell_ProcessCharSetupNoHelp(s, cb) ==
  [s EXCEPT !.g_cb_out = cb,
            !.g_lineEndSet = TRUE,
            !.g_outLineEnd = IF s.g_lineEndSet THEN @ ELSE TxtCRLF]

\* g_cb_out = cb_out; the default line end; the registration of "help"
chell_ProcessCharSetup(s, cb) ==
  IF ~s.g_helpInitialized
  THEN chell_RegisterHandler(
         [s EXCEPT !.g_cb_out = cb,
                   !.g_lineEndSet = TRUE,
                   !.g_outLineEnd = IF s.g_lineEndSet THEN @ ELSE TxtCRLF,
                   !.g_helpInitialized = TRUE],
         TxtHelpName, "handle_help", TxtHelpHelp).s
  ELSE [s EXCEPT !.g_cb_out = cb,
                 !.g_lineEndSet = TRUE,
                 !.g_outLineEnd = IF s.g_lineEndSet THEN @ ELSE TxtCRLF]

\* the interrupt branch without the reset of the line
chell_ProcessCharCtrlCKeepsLine(s, c) ==
  IF c = CTRL_C
  THEN chell_printf_text(s, TxtCtrlC \o s.g_outLineEnd \o s.g_prompt)
  ELSE s

\* if (c == 0x03) { "^C", line end, prompt; the line is dropped }
chell_ProcessCharCtrlC(s, c) ==
  IF c = CTRL_C
  THEN [chell_printf_text(s, TxtCtrlC \o s.g_outLineEnd \o s.g_prompt)
          EXCEPT !.lineBuf = Put(@, 0, NUL), !.lineIdx = 0,
                 !.editIdx = -1, !.lastChar = -1]
  ELSE s

\* a switch that hands the byte that broke an escape sequence to the line
\* editor as a plain character
chell_ProcessCharSwitchLiteral(s, c, pe) ==
  CASE pe.rc = ESC_PROCESSING -> [s EXCEPT !.escapeChars = pe.esc, !.esc = pe.rc,
                                           !.ret = <<>>]
    [] pe.rc = ESC_NO_ACTION \/ pe.rc = ESC_UNHANDLED ->
         lineStep([s EXCEPT !.escapeChars = pe.esc, !.esc = pe.rc], c)
    [] pe.rc = ESC_UP_ARROW ->
         recallUp([s EXCEPT !.escapeChars = pe.esc, !.esc = pe.rc])
    [] pe.rc = ESC_DOWN_ARROW ->
         recallDown([s EXCEPT !.escapeChars = pe.esc, !.esc = pe.rc])
    [] OTHER -> lineStep([s EXCEPT !.escapeChars = pe.esc, !.esc = pe.rc], pe.rc)

\* the switch on pe = processEscapes(c)
chell_ProcessCharSwitch(s, c, pe) ==
  CASE pe.rc = ESC_PROCESSING -> [s EXCEPT !.escapeChars = pe.esc, !.esc = pe.rc,
                                           !.ret = <<>>]
    [] pe.rc = ESC_NO_ACTION ->
         lineStep([s EXCEPT !.escapeChars = pe.esc, !.esc = pe.rc], c)
    [] pe.rc = ESC_UP_ARROW ->
         recallUp([s EXCEPT !.escapeChars = pe.esc, !.esc = pe.rc])
    [] pe.rc = ESC_DOWN_ARROW ->
         recallDown([s EXCEPT !.escapeChars = pe.esc, !.esc = pe.rc])
    [] OTHER -> lineStep([s EXCEPT !.escapeChars = pe.esc, !.esc = pe.rc], pe.rc)

chell_ProcessCharEscapes(s, c) ==
  chell_ProcessCharSwitch(s, c, processEscapes(s.escapeChars, c))

chell_ProcessChar(s, c, cb) ==
  chell_ProcessCharEscapes(chell_ProcessCharCtrlC(chell_ProcessCharSetup(s, cb), c), c)

chell_setPrompt(s, str) ==
  [s EXCEPT !.g_prompt = str]

(***************************************************************************)
(* The state: the file globals and statics of chell.c, then what the       *)
(* properties observe about the calls made.                                *)
(***************************************************************************)
VARIABLES
  lineBuf,            \* char lineBuf[MAX_TOTAL_COMMAND_CHARS+1]
  lineIdx,            \* count of characters in the line
  editIdx,            \* edit index, -1 if not yet established for the line
  lastChar,           \* previous character edited, -1 if none
  escapeChars,        \* the escape accumulator of processEscapes
  recallIdx,          \* history slot being browsed, -1 if none
  histBuf,            \* the ring: MAX_HISTORY lines, <<>> where never written
  histIdx,            \* next slot of the ring to fill
  g_cmd,              \* the registered commands, in order
  g_helpInitialized,
  g_lineEndSet,
  g_outLineEnd,
  g_prompt,
  g_cb_out,           \* TRUE when the last call was given an output call-back
  g_outCharsBuf,      \* the output accumulator (g_outCharIdx is its length)
  halted,             \* the program was ended by undefined behaviour
  ev,                 \* what the last call did
  pre,                \* the program state before the last call
  obs,                \* what was fed since the line began, and the lines pushed
  pending             \* bytes of the key being sent that are still to come

progVars == <<lineBuf, lineIdx, editIdx, lastChar, escapeChars, recallIdx, histBuf,
              histIdx, g_cmd, g_helpInitialized, g_lineEndSet, g_outLineEnd,
              g_prompt, g_cb_out, g_outCharsBuf>>

vars == <<lineBuf, lineIdx, editIdx, lastChar, escapeChars, recallIdx, histBuf,
          histIdx, g_cmd, g_helpInitialized, g_lineEndSet, g_outLineEnd,
          g_prompt, g_cb_out, g_outCharsBuf, halted, ev, pre, obs, pending>>

\* the program state as a record
Prog ==
  [lineBuf |-> lineBuf, lineIdx |-> lineIdx, editIdx |-> editIdx,
   lastChar |-> lastChar, escapeChars |-> escapeChars, recallIdx |-> recallIdx,
   histBuf |-> histBuf, histIdx |-> histIdx, g_cmd |-> g_cmd,
   g_helpInitialized |-> g_helpInitialized, g_lineEndSet |-> g_lineEndSet,
   g_outLineEnd |-> g_outLineEnd, g_prompt |-> g_prompt, g_cb_out |-> g_cb_out,
   g_outCharsBuf |-> g_outCharsBuf]

\* what a call did, before it has done anything
NoCall ==
  [out |-> <<>>, fault |-> "none", done |-> FALSE, edited |-> FALSE, ext |-> 0,
   esc |-> 0, recall |-> "none", disp |-> NoDisp, prompts |-> 0, ins |-> FALSE,
   ret |-> <<>>, pushed |-> <<>>]

\* the machine state a call starts from
Machine ==
  [lineBuf |-> lineBuf, lineIdx |-> lineIdx, editIdx |-> editIdx,
   lastChar |-> lastChar, escapeChars |-> escapeChars, recallIdx |-> recallIdx,
   histBuf |-> histBuf, histIdx |-> histIdx, g_cmd |-> g_cmd,
   g_helpInitialized |-> g_helpInitialized, g_lineEndSet |-> g_lineEndSet,
   g_outLineEnd |-> g_outLineEnd, g_prompt |-> g_prompt, g_cb_out |-> g_cb_out,
   g_outCharsBuf |-> g_outCharsBuf,
   out |-> <<>>, fault |-> "none", done |-> FALSE, edited |-> FALSE, ext |-> 0,
   esc |-> 0, recall |-> "none", disp |-> NoDisp, prompts |-> 0, ins |-> FALSE,
   ret |-> <<>>, pushed |-> <<>>]

Store(r) ==
  /\ lineBuf' = r.lineBuf
  /\ lineIdx' = r.lineIdx
  /\ editIdx' = r.editIdx
  /\ lastChar' = r.lastChar
  /\ escapeChars' = r.escapeChars
  /\ recallIdx' = r.recallIdx
  /\ histBuf' = r.histBuf
  /\ histIdx' = r.histIdx
  /\ g_cmd' = r.g_cmd
  /\ g_helpInitialized' = r.g_helpInitialized
  /\ g_lineEndSet' = r.g_lineEndSet
  /\ g_outLineEnd' = r.g_outLineEnd
  /\ g_prompt' = r.g_prompt
  /\ g_cb_out' = r.g_cb_out
  /\ g_outCharsBuf' = r.g_outCharsBuf

\* the arguments of a registration, where the call is none
NoArg == [cmd |-> <<>>, handler |-> "NULL", help |-> <<>>]

\* the event record of a call: the operation, its input (the byte c, or the
\* entry arg to register), what it did, what
\* had been fed on the line before it (typed, pure, ups, cut, dropped, after,
\* browsing), whether the call before it inserted a character (afterIns) and
\* the line that call began with (was)
Event(op, c, r, crashed, ok) ==
  [op |-> op, c |-> c, crashed |-> crashed, ok |-> ok,
   out |-> r.out, fault |-> r.fault, done |-> r.done, edited |-> r.edited,
   ext |-> r.ext, esc |-> r.esc, recall |-> r.recall, disp |-> r.disp,
   prompts |-> r.prompts, ins |-> r.ins, ret |-> r.ret, pushed |-> r.pushed,
   arg |-> NoArg,
   typed |-> obs.typed, pure |-> obs.pure, ups |-> obs.ups,
   cut |-> obs.cut, dropped |-> obs.dropped, after |-> obs.after,
   browsing |-> obs.browsing,
   afterIns |-> (ev.op = "char" /\ ev.ins /\ ~ev.crashed),
   was |-> [lineBuf |-> pre.lineBuf, lineIdx |-> pre.lineIdx,
            editIdx |-> pre.editIdx]]

IsPrintable(c) == c >= SPACE /\ c <= TILDE

\* The remote terminal as a dumb display, [on, screen, col]: the cells of
\* the line from its start (behind the prompt) and the cursor column.  A
\* printable byte writes at the cursor column and advances it, 0x08 moves it
\* back by one; a column below 0 lies in the prompt, and the cursor stops at
\* the margins.  The terminal is watched only where `on` is set.
NoTerm == [on |-> FALSE, screen |-> <<>>, col |-> 0]

\* the columns between the prompt and the right margin, and those of the
\* prompt
TermWidth == LineSize + 1

TermByte(t, b) ==
  IF b = BS THEN [t EXCEPT !.col = IF @ > -TermWidth THEN @ - 1 ELSE @]
  ELSE IF ~IsPrintable(b) THEN t
  ELSE IF t.col < 0 THEN [t EXCEPT !.col = @ + 1]
  ELSE IF t.col >= TermWidth THEN t
  ELSE IF t.col < Len(t.screen)
  THEN [t EXCEPT !.screen[t.col + 1] = b, !.col = @ + 1]
  ELSE [t EXCEPT !.screen = Append(@, b), !.col = @ + 1]

RECURSIVE TermFeed(_, _)
TermFeed(t, out) ==
  IF out = <<>> THEN t ELSE TermFeed(TermByte(t, Head(out)), Tail(out))

\* seq without the blanks at its end that lie at or behind column col
RECURSIVE StripFrom(_, _)
StripFrom(seq, col) ==
  IF Len(seq) > col /\ Len(seq) > 0 /\ seq[Len(seq)] = SPACE
  THEN StripFrom(SubSeq(seq, 1, Len(seq) - 1), col)
  ELSE seq

\* blank cells behind the cursor and behind the last character look like
\* no cells
TermTidy(t) == [t EXCEPT !.screen = StripFrom(@, t.col)]

\* the bytes of a sequence
Bytes(seq) == {seq[i] : i \in 1..Len(seq)}

\* what was fed since the line began: `typed` is the sequence of printable
\* characters, as long as nothing else was fed and it fits the line (pure);
\* `cut` tells that the interrupt byte was fed on the line, `dropped` is
\* then the set of printable characters fed on the line before the latest
\* one and `after` the set of bytes the line was given since: the printable
\* characters fed and the lines recalled; `browsing` tells that a line
\* was recalled since the latest line completion or interrupt byte; `term`
\* is what the terminal shows of the line, which begins anew behind the
\* prompt that a line completion or an interrupt byte emits
Observe(c, r) ==
  [nLines |-> obs.nLines + (IF r.done THEN 1 ELSE 0),
   typed |-> IF r.done THEN <<>>
             ELSE IF /\ obs.pure /\ r.esc = ESC_NO_ACTION /\ IsPrintable(c)
                     /\ Len(obs.typed) < MAX_TOTAL_COMMAND_CHARS
             THEN Append(obs.typed, c)
             ELSE <<>>,
   pure |-> \/ r.done
            \/ /\ obs.pure /\ r.esc = ESC_NO_ACTION /\ IsPrintable(c)
               /\ Len(obs.typed) < MAX_TOTAL_COMMAND_CHARS,
   ups |-> IF r.done THEN 0
           ELSE IF obs.ups >= 0 /\ r.esc = ESC_UP_ARROW
           THEN (IF obs.ups <= MAX_HISTORY THEN obs.ups + 1 ELSE obs.ups)
           ELSE IF obs.ups >= 0 /\ r.esc = ESC_PROCESSING THEN obs.ups
           ELSE -1,
   cut |-> ~r.done /\ (obs.cut \/ c = CTRL_C),
   dropped |-> IF r.done THEN {}
               ELSE IF c = CTRL_C THEN obs.dropped \cup obs.after \cup Bytes(obs.typed)
               ELSE obs.dropped,
   after |-> IF r.done \/ c = CTRL_C \/ ~obs.cut THEN {}
             ELSE IF r.esc = ESC_NO_ACTION /\ IsPrintable(c) THEN obs.after \cup {c}
             ELSE IF r.recall = "ok" THEN obs.after \cup Bytes(Str(r.lineBuf))
             ELSE obs.after,
   browsing |-> ~r.done /\ c # CTRL_C /\ (obs.browsing \/ r.recall = "ok"),
   term |-> IF ~obs.term.on THEN obs.term
            ELSE IF r.done \/ c = CTRL_C THEN [NoTerm EXCEPT !.on = TRUE]
            ELSE TermTidy(TermFeed(obs.term, r.out)),
   log |-> IF r.pushed # <<>> /\ Len(obs.log) < MAX_HISTORY
           THEN Append(obs.log, r.pushed[1])
           ELSE obs.log]

\* the program as it starts
InitProgram ==
  /\ lineBuf = Zeros(LineSize)
  /\ lineIdx = 0
  /\ editIdx = -1
  /\ lastChar = -1
  /\ escapeChars = <<>>
  /\ recallIdx = -1
  /\ histBuf = [i \in 1..MAX_HISTORY |-> <<>>]
  /\ histIdx = 0
  /\ g_cmd = <<>>
  /\ g_helpInitialized = FALSE
  /\ g_lineEndSet = FALSE
  /\ g_outLineEnd = <<>>
  /\ g_prompt = <<>>
  /\ g_cb_out = FALSE
  /\ g_outCharsBuf = <<>>
  /\ halted = FALSE
  /\ ev = [op |-> "init", c |-> 0, crashed |-> FALSE, ok |-> TRUE,
           out |-> <<>>, fault |-> "none", done |-> FALSE, edited |-> FALSE,
           ext |-> 0, esc |-> 0, recall |-> "none", disp |-> NoDisp,
           prompts |-> 0, ins |-> FALSE, ret |-> <<>>, pushed |-> <<>>,
           arg |-> [cmd |-> <<>>, handler |-> "NULL", help |-> <<>>],
           typed |-> <<>>, pure |-> TRUE, ups |-> 0, cut |-> FALSE,
           dropped |-> {}, after |-> {}, browsing |-> FALSE,
           afterIns |-> FALSE,
           was |-> [lineBuf |-> Zeros(LineSize), lineIdx |-> 0, editIdx |-> -1]]
  /\ pre = [lineBuf |-> Zeros(LineSize), lineIdx |-> 0, editIdx |-> -1,
            lastChar |-> -1, escapeChars |-> <<>>, recallIdx |-> -1,
            histBuf |-> [i \in 1..MAX_HISTORY |-> <<>>], histIdx |-> 0,
            g_cmd |-> <<>>, g_helpInitialized |-> FALSE, g_lineEndSet |-> FALSE,
            g_outLineEnd |-> <<>>, g_prompt |-> <<>>, g_cb_out |-> FALSE,
            g_outCharsBuf |-> <<>>]
  /\ pending = <<>>

\* nothing fed yet
NoObs ==
  [nLines |-> 0, typed |-> <<>>, pure |-> TRUE, ups |-> 0, cut |-> FALSE,
   dropped |-> {}, after |-> {}, browsing |-> FALSE, term |-> NoTerm,
   log |-> <<>>]

Init == InitProgram /\ obs = NoObs

\* the start of a run in which the terminal is watched
InitTerm == InitProgram /\ obs = [NoObs EXCEPT !.term.on = TRUE]

(***************************************************************************)
(* One call of chell_ProcessChar(c, cb).  Undefined behaviour met during   *)
(* the call (fault) either ends the program (u = "crash") or lets it go on *)
(* (u = "live": the stray write lands outside the state of the shell, the  *)
(* null pointer compares unequal to every name).                           *)
(***************************************************************************)
Outcomes == {"live", "crash"}

ProcessChar(c, cb, u) ==
  \E r \in {chell_ProcessChar(Machine, c, cb)} :
     /\ ~halted
     /\ (r.fault = "none") => (u = "live")
     /\ pre' = Prog
     /\ IF u = "crash"
        THEN /\ halted' = TRUE
             /\ UNCHANGED progVars
             /\ UNCHANGED obs
             /\ ev' = Event("char", c,
                            [NoCall EXCEPT !.fault = r.fault, !.esc = r.esc,
                                           !.edited = r.edited, !.ext = r.ext],
                            TRUE, FALSE)
        ELSE /\ halted' = FALSE
             /\ Store(r)
             /\ obs' = Observe(c, r)
             /\ ev' = Event("char", c, r, FALSE, TRUE)

\* a call of chell_RegisterHandler(cmd, handler, help, NULL) by the program
Register(cmd, handler, help) ==
  \E r \in {chell_RegisterHandler(Machine, cmd, handler, help)} :
     /\ ~halted
     /\ r.s.fault = "none"
     /\ Store(r.s)
     /\ pre' = Prog
     /\ ev' = [Event("register", 0, r.s, FALSE, r.ok)
                EXCEPT !.arg = [cmd |-> cmd, handler |-> handler, help |-> help]]
     /\ UNCHANGED <<halted, obs, pending>>

\* a call of chell_setPrompt(str) by the program
SetPrompt(str) ==
  /\ ~halted
  /\ pending = <<>>
  /\ g_prompt # str
  /\ Store(chell_setPrompt(Machine, str))
  /\ pre' = Prog
  /\ ev' = Event("prompt", 0, NoCall, FALSE, TRUE)
  /\ UNCHANGED <<halted, obs, pending>>

\* a call of processEscapes(c) alone, as the test loop of main() makes it
Decode(c) ==
  \E pe \in {processEscapes(escapeChars, c)} :
     /\ ~halted
     /\ Store([Machine EXCEPT !.escapeChars = pe.esc])
     /\ pre' = Prog
     /\ ev' = Event("decode", c, [NoCall EXCEPT !.esc = pe.rc], FALSE, TRUE)
     /\ UNCHANGED <<halted, obs, pending>>

(***************************************************************************)
(* The terminal.  A key is the sequence of bytes the terminal sends for    *)
(* it, one byte per call; the bytes of one key arrive without another key  *)
(* in between.  `lines` bounds the number of lines completed: a key that   *)
(* would complete one more is not sent.  `len` bounds the lines typed: no  *)
(* printable character is sent while the line holds len characters.        *)
(***************************************************************************)
Press(keys, lines, len, cb) ==
  \E k \in keys, u \in Outcomes :
    /\ pending = <<>>
    /\ IsPrintable(Head(k)) => lineIdx < len
    /\ ProcessChar(Head(k), cb, u)
    /\ obs'.nLines <= lines
    /\ pending' = Tail(k)

\* the terminal of a user who types lines that fit and stops after `lines`
\* lines: no printable character is sent once the line holds `len` of them
\* (len <= MAX_TOTAL_COMMAND_CHARS)
Type(keys, lines, len, cb) ==
  \E k \in keys, u \in Outcomes :
    /\ pending = <<>>
    /\ obs.nLines < lines
    /\ IsPrintable(Head(k)) => Len(obs.typed) + Len(k) <= len
    /\ ProcessChar(Head(k), cb, u)
    /\ pending' = Tail(k)

Continue(cb) ==
  \E u \in Outcomes :
    /\ pending # <<>>
    /\ ProcessChar(Head(pending), cb, u)
    /\ pending' = Tail(pending)

(***************************************************************************)
(* Keys.                                                                   *)
(***************************************************************************)
KeyA == <<97>>
KeyB == <<98>>
KeySpace == <<SPACE>>
KeyComma == <<COMMA>>
KeyCR == <<CR>>
KeyLF == <<LF>>
KeyBS == <<BS>>
KeyDel7F == <<DEL7F>>
KeyTab == <<TAB>>
KeyCtrlC == <<CTRL_C>>
\* the interrupt byte arriving after an escape byte
KeyEscCtrlC == <<ESC, CTRL_C>>
KeyUp == kEscapes[1]
KeyDown == kEscapes[2]
KeyRight == kEscapes[3]
KeyLeft == kEscapes[4]

KeyPercent == <<37>>

\* the word "help" arriving byte after byte
KeyHelpWord == TxtHelpName

\* the sequences a terminal sends for the Delete, Home and End keys
KeyDelete == kEscapes[14]
KeyHome == kEscapes[15]
KeyEnd == kEscapes[16]

\* bound on the lines completed in a run
MaxLines == 2

(***************************************************************************)
(* Spec: editing with recall.  The terminal sends printable characters,    *)
(* both line ends, Backspace, Up-arrow and Left-arrow; the output goes to  *)
(* a call-back.                                                            *)
(***************************************************************************)
EditKeys == {KeyA, KeyCR, KeyLF, KeyBS, KeyUp, KeyLeft}

\* bound on the characters a line holds when a printable one is sent
EditLen == 4

Next ==
  \/ Press(EditKeys, MaxLines, EditLen, TRUE)
  \/ Continue(TRUE)

Spec == Init /\ [][Next]_vars

(***************************************************************************)
(* SpecType: lines typed from start to end, with both delimiters.          *)
(***************************************************************************)
TypeKeys == {KeyA, KeySpace, KeyComma, KeyCR}

\* bound on the lines completed in a run of SpecType
TypeLines == 1

\* bound on the characters of a line of SpecType
TypeLen == 4

NextType == Type(TypeKeys, TypeLines, TypeLen, TRUE)

SpecType == Init /\ [][NextType]_vars

(***************************************************************************)
(* SpecHist: lines typed and recalled with Up-arrow.                       *)
(***************************************************************************)
HistKeys == {KeyA, KeyPercent, KeyCR, KeyUp}

\* bound on the length of the lines typed in a run of SpecHist
HistLen == 2

NextHist ==
  \/ Press(HistKeys, MaxLines, HistLen, TRUE)
  \/ Continue(TRUE)

SpecHist == Init /\ [][NextHist]_vars

(***************************************************************************)
(* SpecTab: the program registers commands, the user types, completes with *)
(* Tab, erases and ends lines.                                             *)
(***************************************************************************)
TabKeys == {KeyA, KeyB, KeyTab, KeyBS, KeyCR}

\* the command names the program registers: "ab" and "aa"
TabNames == {<<97, 98>>, <<97, 97>>}

\* bounds on the lines completed and on the length of the lines typed in a
\* run of SpecTab
TabLines == 1

TabLen == 2

NextTab ==
  \/ \E cmd \in TabNames : Register(cmd, "handle_example", <<>>)
  \/ Press(TabKeys, TabLines, TabLen, TRUE)

SpecTab == Init /\ [][NextTab]_vars

(***************************************************************************)
(* SpecErase: typing, erasing with both Backspace bytes, moving left,      *)
(* recalling.                                                              *)
(***************************************************************************)
EraseKeys == {KeyA, KeyBS, KeyDel7F, KeyLeft, KeyUp, KeyCR}

\* bounds on the lines completed and on the length of the lines typed in a
\* run of SpecErase
EraseLines == 1

EraseLen == 2

NextErase ==
  \/ Press(EraseKeys, EraseLines, EraseLen, TRUE)
  \/ Continue(TRUE)

SpecErase == Init /\ [][NextErase]_vars

(***************************************************************************)
(* SpecParam: lines of words of one letter set apart by "," and ", ",      *)
(* long enough to hold more words than a handler takes parameters.         *)
(***************************************************************************)
KeyCommaSpace == <<COMMA, SPACE>>

ParamKeys == {KeyA, KeyComma, KeyCommaSpace, KeyCR}

\* bounds on the lines completed and on the characters of a line
ParamLines == 1
ParamLen == 5

NextParam ==
  \/ Type(ParamKeys, ParamLines, ParamLen, TRUE)
  \/ Continue(TRUE)

SpecParam == Init /\ [][NextParam]_vars

(***************************************************************************)
(* SpecNav: typing and moving in the line with the arrow, Delete, Home and *)
(* End keys.                                                               *)
(***************************************************************************)
NavKeys == {KeyA, KeyB, KeyLeft, KeyRight, KeyDelete, KeyHome, KeyEnd, KeyCR}

\* bounds on the lines completed and on the length of the lines typed in a
\* run of SpecNav
NavLines == 1

NavLen == 2

NextNav ==
  \/ Press(NavKeys, NavLines, NavLen, TRUE)
  \/ Continue(TRUE)

SpecNav == Init /\ [][NextNav]_vars

(***************************************************************************)
(* SpecIntr: lines typed, recalled and interrupted with Ctrl-C, which may   *)
(* also arrive in the middle of an escape sequence.                        *)
(***************************************************************************)
IntrKeys == {KeyA, KeyB, KeyCtrlC, KeyEscCtrlC, KeyCR}

\* bounds on the lines completed and on the length of the lines typed in a
\* run of SpecIntr
IntrLines == 1

IntrLen == 2

NextIntr ==
  \/ Press(IntrKeys, IntrLines, IntrLen, TRUE)
  \/ Continue(TRUE)

SpecIntr == Init /\ [][NextIntr]_vars

(***************************************************************************)
(* SpecAbort: one-character lines, recalled with Up-arrow and aborted with *)
(* Ctrl-C.                                                                 *)
(***************************************************************************)
AbortKeys == {KeyA, KeyB, KeyCR, KeyUp, KeyCtrlC}

\* bound on the length of the lines typed in a run of SpecAbort
AbortLen == 1

NextAbort ==
  \/ Press(AbortKeys, MaxLines, AbortLen, TRUE)
  \/ Continue(TRUE)

SpecAbort == Init /\ [][NextAbort]_vars

(***************************************************************************)
(* SpecDown: one-character lines, browsed with Up-arrow and Down-arrow.    *)
(***************************************************************************)
DownKeys == {KeyA, KeyPercent, KeyCR, KeyUp, KeyDown}

\* bound on the length of the lines typed in a run of SpecDown
DownLen == 1

NextDown ==
  \/ Press(DownKeys, MaxLines, DownLen, TRUE)
  \/ Continue(TRUE)

SpecDown == Init /\ [][NextDown]_vars

(***************************************************************************)
(* SpecReg: the program registers commands, with a handler or with a null  *)
(* pointer, at any moment between the calls of chell_ProcessChar that feed *)
(* what the user types: the word "help" and line ends.                     *)
(***************************************************************************)
RegKeys == {KeyHelpWord, KeyCR}

\* the command names the program registers: "help" and "e"
RegNames == {TxtHelpName, <<101>>}

RegHandlers == {"handle_example", "NULL"}

\* bound on the lines completed in a run of SpecReg
RegLines == 1

NextReg ==
  \/ \E cmd \in RegNames, handler \in RegHandlers : Register(cmd, handler, <<>>)
  \/ Press(RegKeys, RegLines, LineSize, TRUE)
  \/ Continue(TRUE)

SpecReg == Init /\ [][NextReg]_vars

(***************************************************************************)
(* SpecNoCb: one-character lines typed and browsed by a caller that gives  *)
(* no output call-back and reads what each call returns.                   *)
(***************************************************************************)
NoCbKeys == {KeyA, KeyB, KeyCR, KeyUp, KeyDown}

\* bound on the length of the lines typed in a run of SpecNoCb
NoCbLen == 1

NextNoCb ==
  \/ Press(NoCbKeys, MaxLines, NoCbLen, FALSE)
  \/ Continue(FALSE)

SpecNoCb == Init /\ [][NextNoCb]_vars

(***************************************************************************)
(* SpecTerm: a terminal that shows what the shell emits while the user     *)
(* types, moves left, erases and recalls.                                  *)
(***************************************************************************)
TermKeys == {KeyA, KeyBS, KeyLeft, KeyUp, KeyCR}

\* bounds on the lines completed and on the length of the lines typed in a
\* run of SpecTerm
TermLines == 1

TermLen == 2

NextTerm ==
  \/ Press(TermKeys, TermLines, TermLen, TRUE)
  \/ Continue(TRUE)

SpecTerm == InitTerm /\ [][NextTerm]_vars

(***************************************************************************)
(* SpecDisp: the program registers commands, some under the same name,     *)
(* before it feeds the first byte, as main() does; then lines of "a" and   *)
(* "," are typed.                                                          *)
(***************************************************************************)
DispKeys == {KeyA, KeyComma, KeyCR}

\* the names and handlers the program registers
DispNames == {<<97>>, <<97, 97>>}
DispHandlers == {"handle_example", "handle_other"}

\* bounds on the lines completed and on the characters of a line
DispLines == 1
DispLen == 2

NextDisp ==
  \/ \E cmd \in DispNames, handler \in DispHandlers :
        ev.op # "char" /\ Register(cmd, handler, <<>>)
  \/ Type(DispKeys, DispLines, DispLen, TRUE)

SpecDisp == Init /\ [][NextDisp]_vars

(***************************************************************************)
(* SpecDecode: the escape decoder alone, fed every byte that occurs in     *)
(* kEscapes and two that do not.                                           *)
(***************************************************************************)
DecodeBytes == UNION {Bytes(kEscapes[n]) : n \in 1..Len(kEscapes)} \cup {97, CR}

NextDecode == \E c \in DecodeBytes : Decode(c)

SpecDecode == Init /\ [][NextDecode]_vars

(***************************************************************************)
(* SpecGather: sequences that break off.  The terminal sends the first     *)
(* bytes of F5 and then another key: Left-arrow, "a", Backspace, CR or     *)
(* Ctrl-C.                                                                 *)
(***************************************************************************)
EscPrefixes == {SubSeq(kEscapes[9], 1, m) : m \in 1..4}

GatherKeys == EscPrefixes \cup {KeyA, KeyLeft, KeyBS, KeyCR, KeyCtrlC}

\* bounds on the lines completed and on the characters typed on a line
GatherLines == 1
GatherLen == 1

NextGather ==
  \/ Press(GatherKeys, GatherLines, GatherLen, TRUE)
  \/ Continue(TRUE)

SpecGather == Init /\ [][NextGather]_vars

(***************************************************************************)
(* SpecFn: the function keys and the bytes below 0x20 that are no control  *)
(* codes, on lines of "a" with the cursor moved by Left-arrow.             *)
(***************************************************************************)
\* bytes that are neither printable nor control codes nor the escape byte
RawBytes == {1, 4, 15, 16, 17}

FnKeys ==
  {kEscapes[n] : n \in ESC_F1..(ESC_F1 + 8)} \cup {<<b>> : b \in RawBytes}
    \cup {KeyA, KeyLeft}

\* bounds on the lines completed and on the characters typed on a line
FnLines == 1
FnLen == 1

NextFn ==
  \/ Press(FnKeys, FnLines, FnLen, TRUE)
  \/ Continue(TRUE)

SpecFn == Init /\ [][NextFn]_vars

(***************************************************************************)
(* SpecRing: enough lines to fill the history ring, blank ones among them, *)
(* and Up-arrow to browse it.                                              *)
(***************************************************************************)
RingKeys == {KeyA, KeySpace, KeyCR, KeyUp}

\* bounds on the lines completed and on the characters typed on a line
RingLines == 3
RingLen == 1

NextRing ==
  \/ Press(RingKeys, RingLines, RingLen, TRUE)
  \/ Continue(TRUE)

SpecRing == Init /\ [][NextRing]_vars

(***************************************************************************)
(* SpecFull: the user keeps typing when the line is full; the only limit   *)
(* on the line is the one insertCharAtIndex enforces.  A line is completed *)
(* and recalled, so that a full line is met with and without an edit       *)
(* cursor.                                                                 *)
(***************************************************************************)
FullKeys == {KeyA, KeyLeft, KeyCR, KeyUp}

\* bound on the lines completed in a run of SpecFull
FullLines == 1

NextFull ==
  \/ Press(FullKeys, FullLines, LineSize, TRUE)
  \/ Continue(TRUE)

SpecFull == Init /\ [][NextFull]_vars

(***************************************************************************)
(* SpecArrow: the user types, moves the cursor with Left-arrow and         *)
(* Right-arrow, completes lines and recalls them.                          *)
(***************************************************************************)
ArrowKeys == {KeyA, KeyB, KeyLeft, KeyRight, KeyCR, KeyUp}

\* bounds on the lines completed and on the characters typed on a line
ArrowLines == 1
ArrowLen == 1

NextArrow ==
  \/ Press(ArrowKeys, ArrowLines, ArrowLen, TRUE)
  \/ Continue(TRUE)

SpecArrow == Init /\ [][NextArrow]_vars

(***************************************************************************)
(* Properties.  ev is the call just made, pre the program state before it. *)
(***************************************************************************)
\* a byte fed to the line editor as itself (no escape sequence involved)
Fed(e, c) == e.op = "char" /\ e.esc = ESC_NO_ACTION /\ e.c = c

\* C1: a carriage return immediately followed by a line feed (or a line feed
\* immediately followed by a carriage return) is one terminator: when the
\* first byte of the pair completed the line, the second byte completes no
\* line, dispatches nothing and emits no line end or prompt.
TerminatorPairCompletesOnce ==
  [][(/\ ev.done
      /\ \/ Fed(ev, CR) /\ Fed(ev', LF)
         \/ Fed(ev, LF) /\ Fed(ev', CR))
     => (/\ ~ev'.done
         /\ ev'.prompts = 0
         /\ ev'.disp.kind = "none"
         /\ ev'.out = <<>>)]_vars

\* the first token of seq when it is split on runs of the bytes in delims,
\* <<>> if there is none
FirstWord(seq, delims) ==
  LET starts == {i \in 1..Len(seq) : seq[i] \notin delims}
      a == CHOOSE i \in starts : \A j \in starts : i <= j
      stops == {i \in a..Len(seq) : seq[i] \in delims}
      b == IF stops = {} THEN Len(seq) + 1
           ELSE CHOOSE i \in stops : \A j \in stops : i <= j
  IN IF starts = {} THEN <<>> ELSE SubSeq(seq, a, b - 1)

\* the call completed a line that was typed on a fresh line as printable
\* characters only (ev.typed, at most MAX_TOTAL_COMMAND_CHARS of them)
TypedLineDone == ev.op = "char" /\ ~ev.crashed /\ ev.done /\ ev.pure

\* a command word was handed to a handler
WordHanded == ev.disp.kind # "none" /\ ~ev.disp.cmdNull

\* C2 as stated: the command word handed to the dispatcher is the first
\* whitespace-delimited token of the typed sequence.
CommandIsFirstWhitespaceToken ==
  (TypedLineDone /\ WordHanded) => ev.disp.cmd = FirstWord(ev.typed, {SPACE})

\* C2, amended: the command word handed to the dispatcher is the first token
\* of the typed sequence when it is split on runs of spaces and commas, and
\* one is handed over whenever the sequence has such a token.
CommandIsFirstToken ==
  (TypedLineDone /\ (WordHanded \/ FirstWord(ev.typed, {SPACE, COMMA}) # <<>>))
    => (WordHanded /\ ev.disp.cmd = FirstWord(ev.typed, {SPACE, COMMA}))

\* a line "a,a" was typed and dispatched with the command word "a"
CommaLineDispatched ==
  /\ TypedLineDone
  /\ ev.typed = <<97, COMMA, 97>>
  /\ ev.disp.kind = "unhandled"
  /\ ev.disp.cmd = <<97>>

\* C3: every completed line that is not treated as empty ends with a
\* registered handler or the unhandled handler invoked on a non-null command
\* word, and no completed line leads to a fault.
CompletedLineDispatched ==
  (ev.op = "char" /\ ev.edited /\ ev.ext \in {CR, LF})
    => /\ ev.fault = "none"
       /\ ~ev.crashed
       /\ ev.pushed # <<>> =>
            (ev.disp.kind \in {"handled", "unhandled"} /\ ~ev.disp.cmdNull)

\* C4: after any sequence of input bytes the tracked length satisfies
\* 0 <= lineIdx <= capacity - 1, whence the write of the terminator at
\* lineBuf[lineIdx] on line completion falls inside the buffer.
LengthInBuffer ==
  /\ lineIdx >= 0
  /\ lineIdx <= MAX_TOTAL_COMMAND_CHARS
  /\ ev.fault # "lineBuf_underflow"

\* C5: after any sequence of input bytes, an established edit cursor
\* (editIdx # -1) satisfies 0 <= editIdx <= lineIdx.
CursorInLine ==
  editIdx # -1 => (0 <= editIdx /\ editIdx <= lineIdx)

\* C6: after every successful recall the line buffer holds the recalled
\* entry, the length is that entry's length and the edit cursor is at the
\* end of the line (established there, or to be established there by the
\* next edit).
RecallSetsLineAndCursor ==
  (ev.op = "char" /\ ev.recall = "ok")
    => /\ Str(lineBuf) = histBuf[recallIdx + 1]
       /\ lineIdx = Len(histBuf[recallIdx + 1])
       /\ (editIdx = -1 \/ editIdx = lineIdx)

\* the call was the k-th of k consecutive Up-arrows on a fresh line, after
\* the lines of obs.log, fewer than MAX_HISTORY, were completed
UpOnFreshLine(k) ==
  /\ ev.op = "char"
  /\ ev.esc = ESC_UP_ARROW
  /\ ev.ups = k - 1
  /\ Len(obs.log) < MAX_HISTORY

\* C7: with N < MAX_HISTORY non-empty lines completed, the k-th consecutive
\* Up-arrow on a fresh line (k <= N) returns the k-th latest of them, and the
\* (N+1)-th reports no more history and leaves the line buffer, the length
\* and the recall cursor as they were.
RecallsInReverseOrder ==
  \A k \in 1..MAX_HISTORY :
    UpOnFreshLine(k) =>
      /\ ~ev.crashed
      /\ k <= Len(obs.log) =>
           /\ ev.recall = "ok"
           /\ ev.ret = obs.log[Len(obs.log) - k + 1]
           /\ Str(lineBuf) = obs.log[Len(obs.log) - k + 1]
           /\ lineIdx = Len(obs.log[Len(obs.log) - k + 1])
      /\ k = Len(obs.log) + 1 =>
           /\ ev.recall = "nomore"
           /\ ev.ret = <<>>
           /\ lineBuf = pre.lineBuf
           /\ lineIdx = pre.lineIdx
           /\ recallIdx = pre.recallIdx

\* the content of the line of program state p: empty on a fresh line (cell 0
\* of the buffer is cleared by the first edit), else the C string in lineBuf
LineContent(p) ==
  IF p.editIdx < 0 /\ p.lineIdx = 0 THEN <<>> ELSE Str(p.lineBuf)

\* the edit cursor of program state p: at the end of the line until an edit
\* establishes it
Cursor(p) == IF p.editIdx < 0 THEN p.lineIdx ELSE p.editIdx

IsPrefix(a, b) == Len(a) <= Len(b) /\ SubSeq(b, 1, Len(a)) = a

\* the entries of the table whose name the line before the call is a prefix
\* of (the call leaves the table alone but for the "help" entry it adds
\* before anything else when it is the first call)
TabMatches ==
  {i \in 1..Len(g_cmd) : IsPrefix(LineContent(pre), g_cmd[i].cmd)}

\* the call fed a Tab with the cursor at the end of the line
TabAtEnd ==
  /\ Fed(ev, TAB)
  /\ ev.edited
  /\ Cursor(pre) = pre.lineIdx

\* C8: Tab with the cursor at the end of the line completes the line to the
\* only registered name it is a prefix of (buffer content, length and cursor
\* are those of the name, the appended characters are echoed) and does and
\* emits nothing when no name or several names qualify.
TabCompletesUniquePrefix ==
  TabAtEnd =>
    /\ ~ev.crashed
    /\ Cardinality(TabMatches) = 1 =>
         LET name == g_cmd[CHOOSE i \in TabMatches : TRUE].cmd
         IN /\ Str(lineBuf) = name
            /\ lineIdx = Len(name)
            /\ editIdx = Len(name)
            /\ ev.out = SubSeq(name, Len(LineContent(pre)) + 1, Len(name))
    /\ Cardinality(TabMatches) # 1 =>
         /\ LineContent(Prog) = LineContent(pre)
         /\ lineIdx = pre.lineIdx
         /\ Cursor(Prog) = Cursor(pre)
         /\ ev.out = <<>>

\* the line of program state p is empty
EmptyLine(p) == LineContent(p) = <<>>

\* the call fed a Backspace byte on an empty line
BackspaceOnEmptyLine ==
  /\ Fed(ev, BS) \/ Fed(ev, DEL7F)
  /\ ev.edited
  /\ EmptyLine(pre)

\* C9: Backspace (0x08 or 0x7F) on an empty line changes neither the buffer
\* content nor the length nor the cursor and emits no byte.
BackspaceOnEmptyLineIsNoOp ==
  BackspaceOnEmptyLine =>
    /\ ~ev.crashed
    /\ LineContent(Prog) = LineContent(pre)
    /\ lineIdx = pre.lineIdx
    /\ Cursor(Prog) = Cursor(pre)
    /\ ev.out = <<>>

\* Backspace bytes were fed on a fresh line and on a line emptied by erasing
BackspaceOnEmptyLineSeen ==
  /\ BackspaceOnEmptyLine
  /\ ~ev.crashed
  /\ Fed(ev, DEL7F)
  /\ pre.editIdx = 0
  /\ obs.nLines = 1

\* C10: a printable character inserted at the cursor and then deleted with
\* Backspace leaves the buffer content, the length and the cursor as they
\* were before the insertion.
InsertThenBackspaceRestores ==
  (ev.op = "char" /\ ev.afterIns /\ ev.edited /\ (Fed(ev, BS) \/ Fed(ev, DEL7F)))
    => /\ ~ev.crashed
       /\ LineContent(Prog) = LineContent(ev.was)
       /\ lineIdx = ev.was.lineIdx
       /\ Cursor(Prog) = Cursor(ev.was)

\* the call fed the last byte of the key sequence `key`
KeyCompleted(key) ==
  /\ ev.op = "char"
  /\ pre.escapeChars = SubSeq(key, 1, Len(key) - 1)
  /\ ev.c = key[Len(key)]

\* the sequence seq without its element at C index i
Without(seq, i) == SubSeq(seq, 1, i) \o SubSeq(seq, i + 2, Len(seq))

\* C11: the Delete key sequence (0x1B 0x5B 0x33 0x7E), fed while a character
\* exists at the cursor, removes that character: the length decreases by
\* one, the cursor stays, the characters after the cursor shift left by one.
DeleteKeyRemovesCharAtCursor ==
  (KeyCompleted(KeyDelete) /\ Cursor(pre) < Len(LineContent(pre)))
    => /\ ~ev.crashed
       /\ lineIdx = pre.lineIdx - 1
       /\ Cursor(Prog) = Cursor(pre)
       /\ LineContent(Prog) = Without(LineContent(pre), Cursor(pre))

\* C12: the Home key sequence (0x1B 0x5B 0x31 0x7E) sets the cursor to 0 and
\* the End key sequence (0x1B 0x5B 0x34 0x7E) sets it to the length; buffer
\* content and length stay, and one byte is emitted per position crossed.
HomeEndKeysMoveCursor ==
  /\ KeyCompleted(KeyHome) =>
       /\ ~ev.crashed
       /\ Cursor(Prog) = 0
       /\ LineContent(Prog) = LineContent(pre)
       /\ lineIdx = pre.lineIdx
       /\ Len(ev.out) = Cursor(pre)
  /\ KeyCompleted(KeyEnd) =>
       /\ ~ev.crashed
       /\ Cursor(Prog) = lineIdx
       /\ LineContent(Prog) = LineContent(pre)
       /\ lineIdx = pre.lineIdx
       /\ Len(ev.out) = pre.lineIdx - Cursor(pre)

\* the call fed the interrupt byte
Interrupted == ev.op = "char" /\ ev.c = CTRL_C

\* the call completed a line on which the interrupt byte had been fed
CompletedAfterInterrupt == ev.op = "char" /\ ev.cut /\ ev.done

\* what the interrupt byte does to the line and what it emits
InterruptClearsLine ==
  /\ ~ev.crashed
  /\ Str(lineBuf) = <<>>
  /\ lineIdx = 0
  /\ ev.out = TxtCtrlC \o g_outLineEnd \o g_prompt
  /\ histBuf = pre.histBuf
  /\ histIdx = pre.histIdx

\* the line dispatched holds nothing of what was typed before the interrupt
\* byte: each of its bytes was fed after it
NothingDroppedDispatched ==
  /\ ~ev.crashed
  /\ ev.pushed # <<>> =>
       /\ Bytes(ev.pushed[1]) \cap (ev.dropped \ ev.after) = {}
       /\ Bytes(ev.pushed[1]) \subseteq ev.after

\* C13 (as stated): in every state the interrupt byte 0x03 discards the
\* line: after the call the buffer is empty and the length 0, the call has
\* emitted "^C", the line end and the prompt, the history ring and the
\* command table are as before, and no character typed before it is part of
\* the next line dispatched.
CtrlCDiscardsLine ==
  /\ Interrupted => (InterruptClearsLine /\ g_cmd = pre.g_cmd)
  /\ CompletedAfterInterrupt => NothingDroppedDispatched

\* the table holding the built-in entry only
HelpOnly ==
  <<[cmd |-> TxtHelpName, handler |-> "handle_help", help |-> TxtHelpHelp]>>

\* C13 (amended): as above, but the command table is as before only once
\* "help" has been registered; a first call made before any registration
\* adds the "help" entry to the empty table, whatever its byte.
CtrlCDiscardsLineOnceSetUp ==
  /\ Interrupted =>
       /\ InterruptClearsLine
       /\ g_cmd = IF pre.g_helpInitialized THEN pre.g_cmd ELSE HelpOnly
  /\ CompletedAfterInterrupt => NothingDroppedDispatched

\* a line "bb" was interrupted, then "a" was typed and dispatched
InterruptedLineReplaced ==
  /\ CompletedAfterInterrupt
  /\ ~ev.crashed
  /\ ev.dropped = {98}
  /\ ev.pushed = << <<97>> >>

\* C14: recall is not in progress after a line completion and after a
\* Ctrl-C, and the first Up-arrow after either recalls the line pushed
\* latest, whatever entry was browsed before.
FirstUpRecallsLatest ==
  /\ (ev.op = "char" /\ ~ev.crashed /\ (ev.done \/ ev.c = CTRL_C)) => recallIdx = -1
  /\ (KeyCompleted(KeyUp) /\ ~ev.browsing /\ obs.log # <<>>) =>
       /\ ~ev.crashed
       /\ ev.recall = "ok"
       /\ Str(lineBuf) = obs.log[Len(obs.log)]

\* the slot after the one being browsed in program state p
SlotAfter(p) == (p.recallIdx + 1) % MAX_HISTORY

\* C15: Down-arrow fails without effect (buffer, length, recall cursor and
\* history as before, nothing emitted) when no recall is in progress or when
\* the step forward would reach the next-write slot; otherwise it recalls
\* the entry one slot newer than the current one.
DownRecallsNewerOrFails ==
  KeyCompleted(KeyDown) =>
    /\ ~ev.crashed
    /\ histBuf = pre.histBuf
    /\ histIdx = pre.histIdx
    /\ (pre.recallIdx < 0 \/ SlotAfter(pre) = pre.histIdx) =>
         /\ ev.recall = "nomore"
         /\ lineBuf = pre.lineBuf
         /\ lineIdx = pre.lineIdx
         /\ recallIdx = pre.recallIdx
         /\ ev.out = <<>>
    /\ (pre.recallIdx >= 0 /\ SlotAfter(pre) # pre.histIdx) =>
         /\ ev.recall = "ok"
         /\ recallIdx = SlotAfter(pre)
         /\ Str(lineBuf) = pre.histBuf[SlotAfter(pre) + 1]
         /\ lineIdx = Len(pre.histBuf[SlotAfter(pre) + 1])
         /\ ev.ret = pre.histBuf[SlotAfter(pre) + 1]

\* the call was a registration
Registering == ev.op = "register"

\* C16: chell_RegisterHandler returns false when the table is at capacity
\* or the handler is null; a failed registration leaves the table with its
\* count and the help-initialized flag as they were; a successful one puts
\* the caller's entry last and changes no earlier entry.
RegistrationAllOrNothing ==
  Registering =>
    /\ (Len(pre.g_cmd) >= MAX_COMMANDS \/ ev.arg.handler = "NULL") => ~ev.ok
    /\ ~ev.ok =>
         /\ g_cmd = pre.g_cmd
         /\ g_helpInitialized = pre.g_helpInitialized
    /\ ev.ok =>
         /\ Len(g_cmd) > Len(pre.g_cmd)
         /\ Len(g_cmd) <= MAX_COMMANDS
         /\ g_cmd[Len(g_cmd)] = ev.arg
         /\ SubSeq(g_cmd, 1, Len(pre.g_cmd)) = pre.g_cmd

\* a registration with a handler was refused by the full table
RegistrationRefusedWhenFull ==
  /\ Registering
  /\ ~ev.ok
  /\ ev.arg.handler # "NULL"
  /\ Len(g_cmd) = MAX_COMMANDS

\* the entries of the table that call the built-in help handler
HelpEntries == {i \in 1..Len(g_cmd) : g_cmd[i].handler = "handle_help"}

\* the call completed the line "help"
HelpLineCompleted ==
  /\ ev.op = "char"
  /\ ev.done
  /\ ev.pushed = <<TxtHelpName>>

\* C17: whatever the interleaving of registrations and characters, "help" is
\* registered once, as the first entry of the table and before any entry of
\* the caller, and a completed line "help" is dispatched as handled to the
\* built-in help handler, also when no command was ever registered.
HelpAlwaysFirst ==
  /\ g_helpInitialized <=> (g_cmd # <<>>)
  /\ g_cmd # <<>> => (g_cmd[1] = HelpOnly[1] /\ HelpEntries = {1})
  /\ (ev.op = "char" /\ ~ev.crashed) => g_cmd # <<>>
  /\ (ev.op = "char" /\ (ev.c = CR \/ ev.c = LF) /\ LineContent(pre) = TxtHelpName)
       => ~ev.crashed
  /\ HelpLineCompleted =>
       /\ ev.disp.kind = "handled"
       /\ ev.disp.handler = "handle_help"
       /\ ev.disp.entry = 0

\* the line "help" was handled although the program had registered nothing
HelpHandledUnregistered ==
  /\ HelpLineCompleted
  /\ ev.disp.handler = "handle_help"
  /\ g_cmd = HelpOnly

\* C18: without an output call-back every call of chell_ProcessChar returns
\* the bytes emitted during that call (as far as the accumulator held them)
\* and leaves the accumulator empty, so that nothing emitted in one call is
\* delivered by a later one; recalls included.
NoCallbackReturnsEmitted ==
  (ev.op = "char" /\ ~ev.crashed /\ ~g_cb_out) =>
    /\ ev.ret = ev.out
    /\ g_outCharsBuf = <<>>

\* seq without the blanks at its end
Shown(seq) == StripFrom(seq, 0)

\* C19: on a dumb display (a printable byte writes at the cursor column and
\* advances it, 0x08 moves it back by one) the characters shown from the
\* start of the line are the content of the line buffer and the cursor
\* column is the edit cursor, whatever was typed, erased, moved over,
\* completed with Tab and recalled within the line.
DisplayMatchesLine ==
  (obs.term.on /\ ~halted) =>
    /\ Shown(obs.term.screen) = Shown(LineContent(Prog))
    /\ obs.term.col = Cursor(Prog)


\* the words of seq, read byte by byte: a space or a comma ends the word
\* being read (cur), any other byte extends it
RECURSIVE SplitWords(_, _, _)
SplitWords(seq, cur, acc) ==
  IF seq = <<>> THEN (IF cur = <<>> THEN acc ELSE Append(acc, cur))
  ELSE IF Head(seq) \in {SPACE, COMMA}
  THEN SplitWords(Tail(seq), <<>>, IF cur = <<>> THEN acc ELSE Append(acc, cur))
  ELSE SplitWords(Tail(seq), Append(cur, Head(seq)), acc)

\* the first n elements of seq, or all of it
FirstN(seq, n) == IF Len(seq) > n THEN SubSeq(seq, 1, n) ELSE seq

TypedLineTerminated ==
  /\ ev.op = "char" /\ ev.edited /\ ev.ext \in {CR, LF}
  /\ ev.pure
  /\ \E i \in 1..Len(ev.typed) : ev.typed[i] # SPACE

\* the entries of the command table that carry the name `word`
EntriesNamed(word) == {i \in 1..Len(g_cmd) : g_cmd[i].cmd = word}

\* C21: a registered handler is invoked for a completed line if and only if
\* the command word equals a registered name exactly; exactly one of a
\* registered handler and the unhandled handler is invoked per dispatched
\* line, and of several entries of one name the earliest is invoked.
DispatchByExactMatch ==
  TypedLineTerminated
    => /\ ~ev.crashed
       /\ ev.disp.kind \in {"handled", "unhandled"}
       /\ ~ev.disp.cmdNull
       /\ ev.disp.kind = "handled"
            <=> EntriesNamed(FirstWord(ev.typed, {SPACE, COMMA})) # {}
       /\ ev.disp.kind = "handled"
            => /\ ev.disp.entry + 1 \in EntriesNamed(FirstWord(ev.typed, {SPACE, COMMA}))
               /\ \A i \in EntriesNamed(FirstWord(ev.typed, {SPACE, COMMA})) :
                     ev.disp.entry + 1 <= i
               /\ ev.disp.handler = g_cmd[ev.disp.entry + 1].handler

\* the call left the line as it was: content, length and cursor
LineUntouched ==
  /\ LineContent(Prog) = LineContent(pre)
  /\ lineIdx = pre.lineIdx
  /\ Cursor(Prog) = Cursor(pre)

\* C22: the sequence of each function key F1 to F9 is ignored by the line
\* editor: content, length and cursor stay, nothing is emitted, deleted or
\* completed, and no line completion is signalled.
FunctionKeysIgnored ==
  \A n \in ESC_F1..(ESC_F1 + 8) :
    KeyCompleted(kEscapes[n])
      => /\ ~ev.crashed
         /\ LineUntouched
         /\ ~ev.done
         /\ ev.out = <<>>

\* C23: a byte outside 0x20-0x7E that is neither a control code nor 0x1B,
\* arriving while no escape sequence is gathered, is ignored: content, length
\* and cursor stay and no byte is emitted.
RawBytesIgnored ==
  (/\ ev.op = "char"
   /\ pre.escapeChars = <<>>
   /\ ~IsPrintable(ev.c)
   /\ ev.c \notin {CTRL_C, BS, TAB, LF, CR, DEL7F, ESC})
    => /\ ~ev.crashed
       /\ LineUntouched
       /\ ev.out = <<>>

\* C24: from an idle decoder the bytes of table entry n, fed in order, give
\* ESC_PROCESSING for every byte but the last and n, the 1-based index of
\* the entry, for the last, for each of the 16 entries; the match leaves the
\* accumulator empty, and with an empty accumulator a byte other than 0x1B
\* gives ESC_NO_ACTION.
DecoderFollowsTable ==
  ev.op = "decode"
    => /\ \A n \in 1..Len(kEscapes), j \in 1..(EscSize - 1) :
            (/\ j <= Len(kEscapes[n])
             /\ pre.escapeChars = SubSeq(kEscapes[n], 1, j - 1)
             /\ ev.c = kEscapes[n][j])
              => IF j < Len(kEscapes[n])
                 THEN ev.esc = ESC_PROCESSING /\ escapeChars = SubSeq(kEscapes[n], 1, j)
                 ELSE ev.esc = n /\ escapeChars = <<>>
       /\ (pre.escapeChars = <<>> /\ ev.c # ESC)
            => (ev.esc = ESC_NO_ACTION /\ escapeChars = <<>>)

\* the last byte of the F9 sequence, entry 13 of 16, was fed behind the four
\* before it and gave 13
LastEntryMatched ==
  /\ ev.op = "decode"
  /\ Len(kEscapes) = 16
  /\ pre.escapeChars = SubSeq(kEscapes[13], 1, 4)
  /\ ev.c = kEscapes[13][5]
  /\ ev.esc = 13

BreaksSequence ==
  /\ ev.op = "char"
  /\ pre.escapeChars # <<>>
  /\ ev.c # ESC
  /\ \A n \in 1..Len(kEscapes) : ~IsPrefix(Append(pre.escapeChars, ev.c), kEscapes[n])

\* what C26 says of a byte that breaks a sequence: ESC_UNHANDLED, an empty
\* accumulator, the line untouched, nothing emitted, no line completed
ByteDiscarded ==
  /\ ~ev.crashed
  /\ ev.esc = ESC_UNHANDLED
  /\ escapeChars = <<>>
  /\ LineUntouched
  /\ ev.out = <<>>
  /\ ~ev.done
  /\ ev.disp.kind = "none"

\* C26 as stated: every byte that breaks a sequence is discarded.
UnmatchedByteDiscarded == BreaksSequence => ByteDiscarded

\* C26, amended: every byte that breaks a sequence is discarded, except the
\* interrupt byte 0x03.
UnmatchedByteDiscardedUnlessInterrupt ==
  (BreaksSequence /\ ev.c # CTRL_C) => ByteDiscarded

\* CR broke a sequence on a line that holds "a", and the line stayed
TerminatorBrokeSequence ==
  /\ BreaksSequence
  /\ ev.c = CR
  /\ LineContent(pre) = <<97>>
  /\ lineIdx = 1

\* C27 as stated: a completed line is pushed into the history ring only when
\* a registered handler took it; a line reported unhandled leaves the ring
\* and its write index unchanged.
UnhandledLineNotPushed ==
  (TypedLineDone /\ WordHanded)
    => /\ ev.pushed # <<>> <=> ev.disp.kind = "handled"
       /\ ev.disp.kind = "unhandled" => (histBuf = pre.histBuf /\ histIdx = pre.histIdx)

\* C27, amended: a completed line that has a command word is pushed into the
\* history ring whether a registered handler took it or it was reported
\* unhandled: it is stored at the write index, which advances by one modulo
\* the capacity, and the other slots stay.
DispatchedLinePushed ==
  (TypedLineDone /\ WordHanded)
    => /\ ev.pushed = <<ev.typed>>
       /\ histBuf = [pre.histBuf EXCEPT ![pre.histIdx + 1] = ev.typed]
       /\ histIdx = (pre.histIdx + 1) % MAX_HISTORY

\* the line "a" was reported unhandled and stored in the ring
UnhandledLinePushed ==
  /\ TypedLineDone
  /\ ev.disp.kind = "unhandled"
  /\ ev.disp.cmd = <<97>>
  /\ histBuf[pre.histIdx + 1] = <<97>>
  /\ histIdx = pre.histIdx + 1

\* the call completed a line that was empty or held nothing but spaces
BlankLineCompleted ==
  /\ ev.op = "char" /\ ~ev.crashed /\ ev.done
  /\ \A i \in 1..Len(LineContent(pre)) : LineContent(pre)[i] = SPACE

\* C28: a completed line that is empty or consists only of spaces is neither
\* dispatched nor pushed: the history ring and its write index stay, no
\* handler is invoked, and the line end plus prompt is emitted exactly once.
BlankLineNotDispatched ==
  BlankLineCompleted
    => /\ ev.disp.kind = "none"
       /\ ev.pushed = <<>>
       /\ histBuf = pre.histBuf
       /\ histIdx = pre.histIdx
       /\ ev.prompts = 1
       /\ ev.out = g_outLineEnd \o g_prompt
       /\ ev.fault = "none"

\* a line of one space was completed while the ring held a line
SpaceLineCompleted ==
  /\ BlankLineCompleted
  /\ LineContent(pre) = <<SPACE>>
  /\ pre.histIdx = 1
  /\ histBuf[1] = <<97>>

\* C29: backward recall does not move past the oldest stored entry: after as
\* many consecutive Up-arrows on a fresh line as the ring holds entries, a
\* further Up-arrow reports no more history and leaves the line buffer, the
\* length and the recall cursor as they were, also when the ring is full.
UpStopsAtOldest ==
  (ev.op = "char" /\ ev.esc = ESC_UP_ARROW /\ ev.ups = Len(obs.log))
    => /\ ~ev.crashed
       /\ ev.recall = "nomore"
       /\ lineBuf = pre.lineBuf
       /\ lineIdx = pre.lineIdx
       /\ recallIdx = pre.recallIdx


\* the bytes clearLine emits for a line of n characters
EraseSeq(n) ==
  [i \in 1..(3 * n) |-> IF i > n /\ i <= 2 * n THEN SPACE ELSE BS]

\* C30: on every successful recall the call returns, and the bytes it emits
\* after the sequence that clears the terminal line are exactly the bytes of
\* the recalled line, '%' included.
RecallEmitsLine ==
  (ev.op = "char" /\ ev.recall = "ok")
    => /\ ~ev.crashed
       /\ ev.out = EraseSeq(pre.lineIdx) \o ev.ret

\* a printable byte fed to the line editor as itself
PrintableFed ==
  ev.op = "char" /\ ev.esc = ESC_NO_ACTION /\ IsPrintable(ev.c)

\* C31: a printable character fed when the line holds capacity-1 characters
\* is dropped: the call returns, emits nothing and leaves the buffer, the
\* length and the cursor as they were.
PrintableDroppedWhenFull ==
  (PrintableFed /\ pre.lineIdx = MAX_TOTAL_COMMAND_CHARS)
    => /\ ~ev.crashed
       /\ ev.out = <<>>
       /\ ~ev.ins
       /\ lineBuf = pre.lineBuf
       /\ lineIdx = pre.lineIdx
       /\ Cursor(Prog) = Cursor(pre)

\* witness of C31: a character was dropped on a full line that had just
\* been recalled, the cursor being in the middle of the line typed before
CharDroppedOnRecalledLine ==
  /\ PrintableFed /\ ~ev.crashed
  /\ pre.lineIdx = MAX_TOTAL_COMMAND_CHARS
  /\ ev.browsing
  /\ lineIdx = MAX_TOTAL_COMMAND_CHARS

\* C32: between calls the tracked length lineIdx is the length of the
\* null-terminated content of the line buffer (on a line that nothing was
\* fed to yet: of the empty line).
LengthTracksContent ==
  ~halted => lineIdx = Len(LineContent(Prog))

\* C33: no call of chell_ProcessChar formats a string that, with its
\* terminator, is longer than the buffer str[MAX_TOTAL_COMMAND_CHARS+1] of
\* chell_printf.
FormattedStringsFit ==
  (ev.op = "char") => ev.fault # "printf_overflow"

\* the bytes the accumulator has room for, besides its terminator: the
\* length of the longest escape sequence of the table
MaxSequence == EscSize - 1

\* a byte other than the escape byte given to the decoder
NonEscapeDecoded == ev.op = "decode" /\ ev.c # ESC

\* C34: the decoder does not stay gathering.  The accumulator never holds
\* more than 5 bytes; every non-escape byte that leaves the decoder
\* gathering adds one byte to it and every other result leaves it empty; so
\* the 4th non-escape byte after an escape byte, at the latest, ends the
\* gathering with a code or "unhandled", and the non-escape byte after that
\* is reported as no escape.
GatheringEnds ==
  /\ Len(escapeChars) <= MaxSequence
  /\ (NonEscapeDecoded /\ ev.esc = ESC_PROCESSING)
       => /\ pre.escapeChars # <<>>
          /\ Len(escapeChars) = Len(pre.escapeChars) + 1
  /\ (NonEscapeDecoded /\ ev.esc # ESC_PROCESSING) => escapeChars = <<>>
  /\ (NonEscapeDecoded /\ Len(pre.escapeChars) = MaxSequence - 1)
       => ev.esc # ESC_PROCESSING
  /\ (NonEscapeDecoded /\ pre.escapeChars = <<>>) => ev.esc = ESC_NO_ACTION

\* witness of C34: the 4th byte after an escape byte matched no entry and
\* ended the gathering
FourthByteEndsGathering ==
  /\ NonEscapeDecoded
  /\ Len(pre.escapeChars) = MaxSequence - 1
  /\ ev.esc = ESC_UNHANDLED
  /\ escapeChars = <<>>

\* the arrow key the call completed
ArrowDecoded(code) == ev.op = "char" /\ ev.esc = code

\* C35: Left-arrow and Right-arrow change neither the content nor the length
\* of the line.  Left-arrow with the cursor behind the start moves it back
\* by one and emits one backspace; Right-arrow with the cursor before the
\* end moves it on by one and emits the character it steps over; at the
\* start resp. the end of the line they do and emit nothing.
ArrowsOnlyMoveCursor ==
  /\ (ArrowDecoded(ESC_LEFT_ARROW) \/ ArrowDecoded(ESC_RIGHT_ARROW))
       => /\ ~ev.crashed
          /\ LineContent(Prog) = LineContent(pre)
          /\ lineIdx = pre.lineIdx
  /\ (ArrowDecoded(ESC_LEFT_ARROW) /\ Cursor(pre) > 0)
       => Cursor(Prog) = Cursor(pre) - 1 /\ ev.out = <<BS>>
  /\ (ArrowDecoded(ESC_LEFT_ARROW) /\ Cursor(pre) = 0)
       => Cursor(Prog) = 0 /\ ev.out = <<>>
  /\ (ArrowDecoded(ESC_RIGHT_ARROW) /\ Cursor(pre) < pre.lineIdx)
       => /\ Cursor(Prog) = Cursor(pre) + 1
          /\ ev.out = <<At(pre.lineBuf, Cursor(pre))>>
  /\ (ArrowDecoded(ESC_RIGHT_ARROW) /\ Cursor(pre) = pre.lineIdx)
       => Cursor(Prog) = Cursor(pre) /\ ev.out = <<>>

\* witness of C35: Right-arrow stepped over the character of the line "b",
\* the cursor having been moved to the start of the line
RightArrowSteppedOver ==
  /\ ArrowDecoded(ESC_RIGHT_ARROW) /\ ~ev.crashed
  /\ Cursor(pre) = 0
  /\ LineContent(pre) = <<98>>
  /\ ev.out = <<98>>
  /\ editIdx = 1

=============================================================================
